---- MODULE Spec2Model ----
(***************************************************************************)
(* TendX attendance flow: the AttendanceSubmission page                     *)
(* (src/src/pages/AttendanceSubmission.tsx), the spaces / users /           *)
(* attendance_records tables with their row-level policies                  *)
(* (src/unnamed/part_004 and the users migrations), the Dashboard's status  *)
(* toggle and the auth context's user value.                                *)
(*                                                                          *)
(* Text is modelled as a sequence of one-character strings, so that the     *)
(* email pattern and the key normalisation are computed character by        *)
(* character.                                                               *)
(***************************************************************************)
EXTENDS Naturals, Sequences, FiniteSets, TLC

VARIABLES
    now,                 \* the wall clock read by new Date()
    spaces,              \* table public.spaces: code -> row
    users,               \* table public.users: its rows
    attendance_records,  \* table public.attendance_records, in insertion order
    session,             \* identity held by the supabase client (auth.uid())
    code,                \* route parameter :code
    user,                \* useAuth().user as seen by the page
    space,               \* useState<Space | null>
    loading,             \* useState(true)
    isSubmitting,        \* useState(false)
    submitted,           \* useState(false)
    error,               \* useState<string | null>
    formValues,          \* react-hook-form values: key -> text (absent = undefined)
    formErrors,          \* react-hook-form formState.errors: keys flagged
    runs,                \* every fetchSpace invocation of this mount, in start order
    inserts,             \* attendance_records inserts in flight
    lastToast,           \* the last toast raised
    auth_users,          \* table auth.users: its rows
    migration,           \* state of migration 20250720223801_steep_stream
    signups,             \* outcome of the sign-up of each identity
    calls,               \* AuthContext: fetchUserProfile calls, in start order
    profile,             \* AuthContext: useState<UserProfile | null>
    createSpace,         \* CreateSpace page of each signed-in client
    profileUpdates,      \* AuthContext: updateProfile calls, in start order
    notifications,       \* table public.notifications: its rows
    authTasks,           \* AuthContext: getSession().then and signOut, pending or not
    community_members,   \* table public.community_members: its rows
    communityPage,       \* Communities page: local list, calls in flight
    dashboard            \* Dashboard page: local spaces list, calls in flight

vars == <<now, spaces, users, attendance_records, session, code, user, space,
          loading, isSubmitting, submitted, error, formValues, formErrors,
          runs, inserts, lastToast, auth_users, migration, signups, calls,
          profile, createSpace, profileUpdates, notifications, authTasks,
          community_members, communityPage, dashboard>>

storeVars == <<spaces, users, attendance_records>>
pageVars == <<space, loading, isSubmitting, submitted, error, formValues,
              formErrors, runs, inserts, lastToast>>
authVars == <<auth_users, migration, signups, calls, profile>>
createVars == <<createSpace>>
sessionVars == <<profileUpdates, notifications, authTasks>>
communityVars == <<community_members, communityPage>>
dashboardVars == <<dashboard>>
appVars == <<createVars, sessionVars, communityVars, dashboardVars>>

----------------------------------------------------------------------------
(* Bounds *)

MaxTime == 1
MaxRuns == 2
MaxCalls == 2
MaxUpdates == 2
MaxStatusCalls == 2
MaxJoins == 2

----------------------------------------------------------------------------
(* Values *)

NoUser == "null"                 \* user / user_id null
NoError == "null"                \* error null
NoSpace == [null |-> TRUE]       \* space null
NoRow == [null |-> TRUE]         \* a query's data when no row came back
NoTime == <<>>                   \* end_time NULL; a set time t is <<t>>
NotAnArray == [kind |-> "null"]  \* a required_fields value that is no array

Owner == "admin1"
Visitor == "u1"
Identities == {Owner, Visitor}

Statuses == {"open", "paused", "closed"}

Times == 0..MaxTime

\* Field names, as character sequences
StudentID == <<"S", "t", "u", "d", "e", "n", "t", " ", "I", "D">>
Note == <<"N", "o", "t", "e">>

\* required_fields values a space row can hold
Schemas ==
    { [kind |-> "array", items |-> <<>>],
      [kind |-> "array", items |->
          << [id |-> "f1", name |-> StudentID, type |-> "number", required |-> TRUE] >>],
      [kind |-> "array", items |->
          << [id |-> "f1", name |-> Note, type |-> "text", required |-> FALSE] >>],
      NotAnArray }

EndTimes == {NoTime} \cup {<<t>> : t \in Times}

\* Route codes: absent, the code of the one stored space, a code of no space
NoCode == ""
SpaceCode == "TEND-00042"
OtherCode == "TEND-99999"
Codes == {NoCode, SpaceCode, OtherCode}

\* Text inputs
Empty == <<>>
Jane == <<"J", "a", "n", "e">>
NinetyNine == <<"9", "9">>

EmailGood == <<"a", "@", "b", ".", "c", "o">>
EmailUpper == <<"A", "@", "B", ".", "C", "O">>
EmailSub == <<"a", "@", "b", ".", "c", ".", "d", "e">>
EmailNoAt == <<"n", "o", "t", "-", "a", "n", "-", "e", "m", "a", "i", "l">>
EmailNoDot == <<"a", "@", "b", "c", "o">>
EmailShortTld == <<"a", "@", "b", ".", "c">>
EmailDigitTld == <<"a", "@", "b", ".", "c", "1">>
EmailNoLocal == <<"@", "b", ".", "c", "o">>
EmailNoDomain == <<"a", "@", ".", "c", "o">>
EmailSpace == <<"a", " ", "@", "b", ".", "c", "o">>

NameInputs == {Jane}
EmailInputs == {EmailGood}
AllNameInputs == {Empty, Jane}
AllEmailInputs == {Empty, EmailGood, EmailUpper, EmailSub, EmailNoAt, EmailNoDot,
                   EmailShortTld, EmailDigitTld, EmailNoLocal, EmailNoDomain,
                   EmailSpace}
CustomInputs == {NinetyNine}
AllCustomInputs == {Empty, NinetyNine}

\* Field names and inputs of the custom-field specification
IdNo == <<"I", "D", " ", "\t", "N", "o">>
IdNoLower == <<"i", "d", " ", "n", "o">>
NameField == <<"N", "a", "m", "e">>
Contact == <<"C", "o", "n", "t", "a", "c", "t">>
Age == <<"A", "g", "e">>
Abc == <<"a", "b", "c">>

\* required_fields lists: two plain fields; two fields whose names normalise
\* to one key; a field whose name normalises to the fixed key name; a field
\* of type email and one of type number
FieldSchemas ==
    { << [id |-> "f1", name |-> StudentID, type |-> "number", required |-> TRUE],
         [id |-> "f2", name |-> Note, type |-> "text", required |-> FALSE] >>,
      << [id |-> "f1", name |-> IdNo, type |-> "text", required |-> TRUE],
         [id |-> "f2", name |-> IdNoLower, type |-> "text", required |-> FALSE] >>,
      << [id |-> "f1", name |-> NameField, type |-> "text", required |-> FALSE] >>,
      << [id |-> "f1", name |-> Contact, type |-> "email", required |-> FALSE],
         [id |-> "f2", name |-> Age, type |-> "number", required |-> TRUE] >> }

FieldInputs == {Empty, NinetyNine, Abc, EmailNoDot}

----------------------------------------------------------------------------
(* Text functions *)

UpperCase == {"A", "B", "C", "D", "I", "J", "N", "O", "S"}
LowerCase == {"a", "b", "c", "d", "e", "i", "j", "l", "m", "n", "o", "s", "t", "u"}
Letters == UpperCase \cup LowerCase
Digits == {"0", "1", "4", "9"}
WhiteSpace == {" ", "\t"}

\* String.prototype.toLowerCase, per character
ToLowerChar(c) ==
    CASE c = "A" -> "a" [] c = "B" -> "b" [] c = "C" -> "c" [] c = "D" -> "d"
      [] c = "I" -> "i" [] c = "J" -> "j" [] c = "N" -> "n" [] c = "O" -> "o"
      [] c = "S" -> "s" [] OTHER -> c

toLowerCase(s) == [i \in 1..Len(s) |-> ToLowerChar(s[i])]

\* s.replace(/\s+/g, '_'): every maximal run of white space becomes one '_'
RECURSIVE ReplaceSpaceRuns(_)
ReplaceSpaceRuns(s) ==
    IF s = <<>> THEN <<>>
    ELSE IF Head(s) \in WhiteSpace
         THEN IF Len(s) > 1 /\ s[2] \in WhiteSpace
              THEN ReplaceSpaceRuns(Tail(s))
              ELSE <<"_">> \o ReplaceSpaceRuns(Tail(s))
         ELSE <<Head(s)>> \o ReplaceSpaceRuns(Tail(s))

\* the key without toLowerCase()
FieldKeyNoLower(name) == ReplaceSpaceRuns(name)

\* customField.name.toLowerCase().replace(/\s+/g, '_')
FieldKey(name) == ReplaceSpaceRuns(toLowerCase(name))

NameKey == <<"n", "a", "m", "e">>
EmailKey == <<"e", "m", "a", "i", "l">>

\* /^[A-Z0-9._%+-]+@[A-Z0-9.-]+\.[A-Z]{2,}$/i
LocalChar(c) == c \in Letters \cup Digits \cup {".", "_", "%", "+", "-"}
DomainChar(c) == c \in Letters \cup Digits \cup {".", "-"}
TldChar(c) == c \in Letters

\* the pattern with a final label of one letter let through: {1,} for {2,}
MatchesEmailPatternShortTld(s) ==
    \E i \in 1..Len(s) : \E j \in 1..Len(s) :
        /\ s[i] = "@"
        /\ i > 1
        /\ \A k \in 1..(i - 1) : LocalChar(s[k])
        /\ j > i + 1
        /\ s[j] = "."
        /\ \A k \in (i + 1)..(j - 1) : DomainChar(s[k])
        /\ Len(s) >= j + 1
        /\ \A k \in (j + 1)..Len(s) : TldChar(s[k])

MatchesEmailPattern(s) ==
    \E i \in 1..Len(s) : \E j \in 1..Len(s) :
        /\ s[i] = "@"
        /\ i > 1
        /\ \A k \in 1..(i - 1) : LocalChar(s[k])
        /\ j > i + 1
        /\ s[j] = "."
        /\ \A k \in (i + 1)..(j - 1) : DomainChar(s[k])
        /\ Len(s) >= j + 2
        /\ \A k \in (j + 1)..Len(s) : TldChar(s[k])

----------------------------------------------------------------------------
(* The store: tables and row-level policies *)

\* policies "Admins can manage their own spaces" and "Everyone can view open
\* spaces": the rows of spaces a SELECT by uid sees
SpacesVisibleTo(uid) ==
    {s \in spaces : s.admin_id = uid \/ s.status = "open"}

\* the spaces query without its eq('unique_code', c) filter
SelectSpaceAnyCode(uid, c) ==
    LET rows == SpacesVisibleTo(uid)
    IN  IF Cardinality(rows) = 1
        THEN [error |-> FALSE, data |-> CHOOSE s \in rows : TRUE]
        ELSE [error |-> TRUE, data |-> NoRow]

\* supabase.from('spaces').select('*').eq('unique_code', c).single()
SelectSpaceByCode(uid, c) ==
    LET rows == {s \in SpacesVisibleTo(uid) : s.unique_code = c}
    IN  IF Cardinality(rows) = 1
        THEN [error |-> FALSE, data |-> CHOOSE s \in rows : TRUE]
        ELSE [error |-> TRUE, data |-> NoRow]

\* policy "Users can view their own data", then
\* supabase.from('users').select('*').eq('id', id).single()
SelectUserById(uid, id) ==
    LET rows == {u \in users : u.id = uid /\ u.id = id}
    IN  IF Cardinality(rows) = 1
        THEN [error |-> FALSE, data |-> CHOOSE u \in rows : TRUE]
        ELSE [error |-> TRUE, data |-> NoRow]

\* policy "Anyone can submit attendance": WITH CHECK (true)
InsertAllowed(uid, row) == TRUE

----------------------------------------------------------------------------
(* The page *)

InvalidCodeMsg == "Invalid attendance code"
NotFoundMsg == "Attendance session not found"
EndedMsg == "This attendance session has ended"
StatusMsg(status) == "This attendance session is " \o status

\* Array.isArray(data.required_fields) ? data.required_fields : []
RequiredFieldsOf(data) ==
    IF data.required_fields.kind = "array" THEN data.required_fields.items ELSE <<>>

\* {...data, required_fields: ...}: the Space object kept in state
SpaceObject(data) ==
    [id |-> data.id, title |-> data.title, type |-> data.type,
     status |-> data.status, end_time |-> data.end_time,
     required_fields |-> RequiredFieldsOf(data)]

\* The render gating: which of the page's views is shown
View ==
    IF loading THEN "loading"
    ELSE IF error # NoError THEN "error"
    ELSE IF submitted THEN "submitted"
    ELSE IF space = NoSpace THEN "blank"
    ELSE "form"

\* Keys of the rendered form fields: name, email, then the custom fields
CustomKeys(rf) == {FieldKey(rf[i].name) : i \in 1..Len(rf)}
FormKeys(rf) == {NameKey, EmailKey} \cup CustomKeys(rf)

\* A field's value; undefined and '' both count as empty
HasValue(values, k) == k \in DOMAIN values /\ values[k] # Empty

\* rules of the FormFields registered under key k
RequiredRule(k, rf) ==
    \/ k \in {NameKey, EmailKey}
    \/ \E i \in 1..Len(rf) : FieldKey(rf[i].name) = k /\ rf[i].required
PatternRule(k) == k = EmailKey

FieldValid(values, k, rf) ==
    /\ RequiredRule(k, rf) => HasValue(values, k)
    /\ (PatternRule(k) /\ HasValue(values, k)) => MatchesEmailPattern(values[k])

InvalidFields(values, rf) == {k \in FormKeys(rf) : ~FieldValid(values, k, rf)}

InputsFor(k) ==
    IF k = NameKey THEN NameInputs
    ELSE IF k = EmailKey THEN EmailInputs
    ELSE CustomInputs

AllInputsFor(k) ==
    IF k = NameKey THEN AllNameInputs
    ELSE IF k = EmailKey THEN AllEmailInputs
    ELSE AllCustomInputs

\* values with key k set to v
SetValue(values, k, v) ==
    [x \in DOMAIN values \cup {k} |-> IF x = k THEN v ELSE values[x]]

\* A JavaScript object is the sequence of its entries <<key, value>>, in key
\* order; a key whose value is undefined is still a key of the object
Undefined == <<"undefined">>
Keys(obj) == [i \in 1..Len(obj) |-> obj[i][1]]
HasKey(obj, k) == \E i \in 1..Len(obj) : obj[i][1] = k
Get(obj, k) ==
    IF HasKey(obj, k)
    THEN obj[CHOOSE i \in 1..Len(obj) : obj[i][1] = k][2]
    ELSE Undefined

\* the keys in the order their fields are registered: a key registered again
\* keeps its place
RECURSIVE Register(_, _)
Register(keys, more) ==
    IF more = << >> THEN keys
    ELSE IF \E i \in 1..Len(keys) : keys[i] = Head(more)
         THEN Register(keys, Tail(more))
         ELSE Register(Append(keys, Head(more)), Tail(more))

\* the FormFields in render order: name, email, then requiredFields.map(...)
KeyOrder(rf) ==
    Register(<<NameKey, EmailKey>>, [i \in 1..Len(rf) |-> FieldKey(rf[i].name)])

\* the data object handleSubmit passes to onSubmit: one entry per registered
\* field, undefined where nothing was entered
FieldValues(values, rf) ==
    LET keys == KeyOrder(rf)
    IN  [i \in 1..Len(keys) |->
            <<keys[i], IF keys[i] \in DOMAIN values THEN values[keys[i]]
                       ELSE Undefined>>]

\* the object as the store receives it: serialising the request body drops
\* the entries whose value is undefined
IsDefinedEntry(e) == e[2] # Undefined
JsonObject(obj) == SelectSeq(obj, IsDefinedEntry)

----------------------------------------------------------------------------
(* Initial state: the tables as some earlier history left them, the page
   constructed (useState initial values), no effect run yet *)

\* the auth context left aside: no identity signed up, no profile call made
AuthIdle ==
    /\ auth_users = {}
    /\ migration = "pending"
    /\ signups = << >>
    /\ calls = << >>
    /\ profile = NoRow

\* the other pages left aside: not opened
AppIdle ==
    /\ createSpace = << >>
    /\ profileUpdates = << >>
    /\ notifications = {}
    /\ authTasks = [getSession |-> "idle"]
    /\ community_members = {}
    /\ communityPage = NoRow
    /\ dashboard = NoRow

SpaceRow(status, end, schema) ==
    [id |-> "s1", title |-> "Algebra", type |-> "Class", admin_id |-> Owner,
     required_fields |-> schema, unique_code |-> SpaceCode,
     status |-> status, end_time |-> end]

UserRow(id) ==
    [id |-> id, full_name |-> Jane, email |-> EmailGood]

Init ==
    /\ now = 0
    /\ \E st \in Statuses, e \in EndTimes, sch \in Schemas :
           spaces = {SpaceRow(st, e, sch)}
    /\ session \in Identities \cup {NoUser}
    /\ \E have \in SUBSET (Identities \cap {session}) :
           users = {UserRow(i) : i \in have}
    /\ attendance_records = <<>>
    /\ code \in Codes
    /\ user = NoUser
    /\ space = NoSpace
    /\ loading = TRUE
    /\ isSubmitting = FALSE
    /\ submitted = FALSE
    /\ error = NoError
    /\ formValues = << >>
    /\ formErrors = {}
    /\ runs = << >>
    /\ inserts = << >>
    /\ lastToast = "none"
    /\ AuthIdle
    /\ AppIdle

----------------------------------------------------------------------------
(* fetchSpace *)

\* fetchSpace without its if (!code) guard
StartFetchNoCodeGuard(u) ==
    /\ runs' = Append(runs, [user |-> u, pc |-> "spaces",
                             spacesQueried |-> TRUE, usersQueried |-> FALSE])
    /\ UNCHANGED <<error, loading>>

\* fetchSpace up to its first await, called by the effect with the user u of
\* that render: no code -> error, no query; otherwise the spaces query goes out
StartFetch(u) ==
    IF code = NoCode
    THEN /\ error' = InvalidCodeMsg
         /\ loading' = FALSE
         /\ runs' = Append(runs, [user |-> u, pc |-> "done",
                                  spacesQueried |-> FALSE, usersQueried |-> FALSE])
    ELSE /\ runs' = Append(runs, [user |-> u, pc |-> "spaces",
                                  spacesQueried |-> TRUE, usersQueried |-> FALSE])
         /\ UNCHANGED <<error, loading>>

\* useEffect on mount
Mount ==
    /\ runs = << >>
    /\ StartFetch(user)
    /\ UNCHANGED <<authVars, appVars>>
    /\ UNCHANGED <<now, storeVars, session, code, user, space, isSubmitting,
                   submitted, formValues, formErrors, inserts, lastToast>>

\* AuthContext: getSession().then / onAuthStateChange set user to the session's
\* user object; the page re-renders and the effect (deps [code, user, form])
\* runs fetchSpace again
AuthStateChange ==
    /\ Len(runs) >= 1
    /\ Len(runs) < MaxRuns
    /\ session # NoUser
    /\ user' = session
    /\ StartFetch(session)
    /\ UNCHANGED <<authVars, appVars>>
    /\ UNCHANGED <<now, storeVars, session, code, space, isSubmitting,
                   submitted, formValues, formErrors, inserts, lastToast>>

\* an end_time test that never fires
HasEndedNever(data, t) == FALSE

\* data.end_time && new Date(data.end_time) < new Date()
HasEnded(data, t) == data.end_time # NoTime /\ data.end_time[1] < t

SetPc(r, pc) == [runs EXCEPT ![r].pc = pc]

\* the spaces query of run r returns (net = "error": the request failed) and
\* fetchSpace continues to its next await or to its end
SpacesResponse(r, net) ==
    /\ r \in 1..Len(runs)
    /\ runs[r].pc = "spaces"
    /\ LET res == IF net = "ok" THEN SelectSpaceByCode(session, code)
                  ELSE [error |-> TRUE, data |-> NoRow]
           data == res.data
       IN  IF res.error
           THEN \* throw error -> catch -> finally
                /\ error' = NotFoundMsg
                /\ loading' = FALSE
                /\ runs' = SetPc(r, "done")
                /\ UNCHANGED space
           ELSE IF data.status # "open"
           THEN /\ error' = StatusMsg(data.status)
                /\ space' = SpaceObject(data)
                /\ loading' = FALSE
                /\ runs' = SetPc(r, "done")
           ELSE IF HasEnded(data, now)
           THEN /\ error' = EndedMsg
                /\ space' = SpaceObject(data)
                /\ loading' = FALSE
                /\ runs' = SetPc(r, "done")
           ELSE /\ space' = SpaceObject(data)
                /\ IF runs[r].user # NoUser
                   THEN /\ runs' = [runs EXCEPT ![r].pc = "users",
                                                ![r].usersQueried = TRUE]
                        /\ UNCHANGED loading
                   ELSE /\ runs' = SetPc(r, "done")
                        /\ loading' = FALSE
                /\ UNCHANGED error
    /\ UNCHANGED <<authVars, appVars>>
    /\ UNCHANGED <<now, storeVars, session, code, user, isSubmitting, submitted,
                   formValues, formErrors, inserts, lastToast>>

\* form.reset({name: userData.full_name || '', email: userData.email || ''})
ResetValues(userData) ==
    [k \in {NameKey, EmailKey} |->
        IF k = NameKey THEN userData.full_name ELSE userData.email]

\* the users query of run r returns a value (net = "ok" or "error") or the
\* awaited call throws (net = "throw")
UsersResponse(r, net) ==
    /\ r \in 1..Len(runs)
    /\ runs[r].pc = "users"
    /\ LET res == IF net = "ok" THEN SelectUserById(session, runs[r].user)
                  ELSE [error |-> TRUE, data |-> NoRow]
       IN  IF net = "throw"
           THEN /\ error' = NotFoundMsg
                /\ UNCHANGED <<formValues, formErrors>>
           ELSE IF res.data # NoRow
           THEN /\ formValues' = ResetValues(res.data)
                /\ formErrors' = {}
                /\ UNCHANGED error
           ELSE UNCHANGED <<error, formValues, formErrors>>
    /\ loading' = FALSE
    /\ runs' = SetPc(r, "done")
    /\ UNCHANGED <<authVars, appVars>>
    /\ UNCHANGED <<now, storeVars, session, code, user, space, isSubmitting,
                   submitted, inserts, lastToast>>

----------------------------------------------------------------------------
(* The form *)

\* the attendee edits the field registered under key k (fields are rendered
\* only in the form view); a flagged field is validated again on change
TypeField(k, v) ==
    /\ View = "form"
    /\ k \in FormKeys(space.required_fields)
    /\ formValues' = SetValue(formValues, k, v)
    /\ formErrors' = IF k \in formErrors
                            /\ FieldValid(formValues', k, space.required_fields)
                     THEN formErrors \ {k}
                     ELSE formErrors
    /\ UNCHANGED <<authVars, appVars>>
    /\ UNCHANGED <<now, storeVars, session, code, user, space, loading,
                   isSubmitting, submitted, error, runs, inserts, lastToast>>

\* the attendee edits the input of the i-th custom field; the input is bound
\* to the field registered under the normalised name
TypeCustomField(i, v) ==
    /\ space # NoSpace
    /\ i \in 1..Len(space.required_fields)
    /\ TypeField(FieldKey(space.required_fields[i].name), v)

\* the form rendered whenever a space is held, the error view not gating it
SubmitEnabledUngated == ~loading /\ space # NoSpace /\ ~submitted /\ ~isSubmitting

\* the submit control is rendered in the form view, disabled={isSubmitting}
SubmitEnabled == View = "form" /\ ~isSubmitting

\* the payload with the user id left out
SubmissionDataAnon(data) ==
    [space_id |-> space.id, user_id |-> NoUser, fields |-> data]

\* {space_id: space.id, user_id: user?.id || null, fields: data}
SubmissionData(data) ==
    [space_id |-> space.id, user_id |-> user, fields |-> data]

\* onSubmit without setIsSubmitting(true)
OnSubmitStartNoFlag(data) ==
    IF space = NoSpace
    THEN UNCHANGED <<isSubmitting, inserts>>
    ELSE /\ UNCHANGED isSubmitting
         /\ inserts' = Append(inserts, SubmissionData(data))

\* onSubmit up to its await: guard on space, setIsSubmitting(true), the insert
\* request goes out
OnSubmitStart(data) ==
    IF space = NoSpace
    THEN UNCHANGED <<isSubmitting, inserts>>
    ELSE /\ isSubmitting' = TRUE
         /\ inserts' = Append(inserts, SubmissionData(data))

\* a submit activation: form.handleSubmit(onSubmit) validates the registered
\* fields and calls onSubmit only when none fails
HandleSubmit ==
    /\ SubmitEnabled
    /\ LET bad == InvalidFields(formValues, space.required_fields)
       IN  IF bad # {}
           THEN /\ formErrors' = bad
                /\ UNCHANGED <<isSubmitting, inserts>>
           ELSE /\ formErrors' = {}
                /\ OnSubmitStart(FieldValues(formValues, space.required_fields))
    /\ UNCHANGED <<authVars, appVars>>
    /\ UNCHANGED <<now, storeVars, session, code, user, space, loading,
                   submitted, error, formValues, runs, lastToast>>

Remove(seq, i) == [j \in 1..(Len(seq) - 1) |-> IF j < i THEN seq[j] ELSE seq[j + 1]]

\* the row the store creates for an insert request
NewRecord(req) ==
    [id |-> Len(attendance_records) + 1, space_id |-> req.space_id,
     user_id |-> req.user_id, fields |-> JsonObject(req.fields),
     submitted_at |-> now]

\* the store replacing the table's rows by the new row instead of appending
InsertResponseOverwrite(i, net) ==
    /\ i \in 1..Len(inserts)
    /\ IF net = "ok" /\ InsertAllowed(session, inserts[i])
       THEN /\ attendance_records' = <<NewRecord(inserts[i])>>
            /\ submitted' = TRUE
            /\ lastToast' = "Success"
       ELSE /\ lastToast' = "Error"
            /\ UNCHANGED <<attendance_records, submitted>>
    /\ isSubmitting' = FALSE
    /\ inserts' = Remove(inserts, i)
    /\ UNCHANGED <<authVars, appVars>>
    /\ UNCHANGED <<now, spaces, users, session, code, user, space, loading,
                   error, formValues, formErrors, runs>>

\* onSubmit without its finally block: isSubmitting is cleared on success only
InsertResponseNoFinally(i, net) ==
    /\ i \in 1..Len(inserts)
    /\ IF net = "ok" /\ InsertAllowed(session, inserts[i])
       THEN /\ attendance_records' = Append(attendance_records, NewRecord(inserts[i]))
            /\ submitted' = TRUE
            /\ lastToast' = "Success"
            /\ isSubmitting' = FALSE
       ELSE /\ lastToast' = "Error"
            /\ UNCHANGED <<attendance_records, submitted, isSubmitting>>
    /\ inserts' = Remove(inserts, i)
    /\ UNCHANGED <<authVars, appVars>>
    /\ UNCHANGED <<now, spaces, users, session, code, user, space, loading,
                   error, formValues, formErrors, runs>>

\* the insert i returns: net = "ok" (row created), "error" (error value
\* returned) or "throw" (the awaited call throws); onSubmit runs to its end
InsertResponse(i, net) ==
    /\ i \in 1..Len(inserts)
    /\ IF net = "ok" /\ InsertAllowed(session, inserts[i])
       THEN /\ attendance_records' = Append(attendance_records, NewRecord(inserts[i]))
            /\ submitted' = TRUE
            /\ lastToast' = "Success"
       ELSE /\ lastToast' = "Error"
            /\ UNCHANGED <<attendance_records, submitted>>
    /\ isSubmitting' = FALSE
    /\ inserts' = Remove(inserts, i)
    /\ UNCHANGED <<authVars, appVars>>
    /\ UNCHANGED <<now, spaces, users, session, code, user, space, loading,
                   error, formValues, formErrors, runs>>

----------------------------------------------------------------------------
(* The environment *)

\* Dashboard.updateSpaceStatus by the owning admin, as the store sees it:
\* update spaces set status = ... where id = ...
UpdateSpaceStatus(id, status) ==
    /\ \E s \in spaces :
          /\ s.id = id
          /\ s.status # status
          /\ spaces' = (spaces \ {s}) \cup {[s EXCEPT !.status = status]}
    /\ UNCHANGED <<authVars, appVars>>
    /\ UNCHANGED <<now, users, attendance_records, session, code, user, pageVars>>

\* time passes
Tick ==
    /\ now < MaxTime
    /\ now' = now + 1
    /\ UNCHANGED <<authVars, appVars>>
    /\ UNCHANGED <<storeVars, session, code, user, pageVars>>

----------------------------------------------------------------------------

Next ==
    \/ Mount
    \/ AuthStateChange
    \/ \E r \in 1..MaxRuns, net \in {"ok", "error"} : SpacesResponse(r, net)
    \/ \E r \in 1..MaxRuns, net \in {"ok", "error", "throw"} : UsersResponse(r, net)
    \/ \E k \in FormKeys(IF space = NoSpace THEN <<>> ELSE space.required_fields) :
          \E v \in InputsFor(k) : TypeField(k, v)
    \/ HandleSubmit
    \/ \E i \in 1..Len(inserts), net \in {"ok", "error", "throw"} : InsertResponse(i, net)
    \/ \E st \in Statuses : UpdateSpaceStatus("s1", st)
    \/ Tick

Spec == Init /\ [][Next]_vars

\* The insert request is an HTTP call awaited by onSubmit: the assumption that
\* every request in flight eventually returns (with a row, an error value or
\* a thrown error)
InsertReturns ==
    \E i \in 1..Len(inserts), net \in {"ok", "error", "throw"} : InsertResponse(i, net)

SpecLive == Init /\ [][Next]_vars /\ WF_vars(InsertReturns)

----------------------------------------------------------------------------
(* The form alone: an anonymous visitor on an open space that stays open,
   typing from the full input sets *)

InitForm ==
    /\ now = 0
    /\ \E sch \in Schemas : spaces = {SpaceRow("open", NoTime, sch)}
    /\ users = {}
    /\ attendance_records = <<>>
    /\ session = NoUser
    /\ code = SpaceCode
    /\ user = NoUser
    /\ space = NoSpace
    /\ loading = TRUE
    /\ isSubmitting = FALSE
    /\ submitted = FALSE
    /\ error = NoError
    /\ formValues = << >>
    /\ formErrors = {}
    /\ runs = << >>
    /\ inserts = << >>
    /\ lastToast = "none"
    /\ AuthIdle
    /\ AppIdle

NextForm ==
    \/ Mount
    \/ \E r \in 1..MaxRuns : SpacesResponse(r, "ok")
    \/ \E k \in FormKeys(IF space = NoSpace THEN <<>> ELSE space.required_fields) :
          \E v \in AllInputsFor(k) : TypeField(k, v)
    \/ HandleSubmit
    \/ \E i \in 1..Len(inserts), net \in {"ok", "error", "throw"} : InsertResponse(i, net)

SpecForm == InitForm /\ [][NextForm]_vars

----------------------------------------------------------------------------
(* The custom fields: an anonymous visitor on an open space that stays open,
   over the required_fields lists of FieldSchemas, typing into each input *)

InitFields ==
    /\ now = 0
    /\ \E items \in FieldSchemas :
          spaces = {SpaceRow("open", NoTime, [kind |-> "array", items |-> items])}
    /\ users = {}
    /\ attendance_records = <<>>
    /\ session = NoUser
    /\ code = SpaceCode
    /\ user = NoUser
    /\ space = NoSpace
    /\ loading = TRUE
    /\ isSubmitting = FALSE
    /\ submitted = FALSE
    /\ error = NoError
    /\ formValues = << >>
    /\ formErrors = {}
    /\ runs = << >>
    /\ inserts = << >>
    /\ lastToast = "none"
    /\ AuthIdle
    /\ AppIdle

NextFields ==
    \/ Mount
    \/ \E r \in 1..MaxRuns : SpacesResponse(r, "ok")
    \/ \E k \in {NameKey, EmailKey} : \E v \in InputsFor(k) : TypeField(k, v)
    \/ \E i \in 1..Len(IF space = NoSpace THEN <<>> ELSE space.required_fields) :
          \E v \in FieldInputs : TypeCustomField(i, v)
    \/ HandleSubmit
    \/ \E i \in 1..Len(inserts), net \in {"ok", "error", "throw"} : InsertResponse(i, net)

SpecFields == InitFields /\ [][NextFields]_vars

----------------------------------------------------------------------------
(* The whole flow over a table that already holds a row: an earlier,
   anonymous submission to the same space *)

EarlierRecord ==
    [id |-> 1, space_id |-> "s1", user_id |-> NoUser,
     fields |-> << <<NameKey, Jane>>, <<EmailKey, EmailGood>> >>,
     submitted_at |-> 0]

InitStore ==
    /\ now = 0
    /\ \E st \in Statuses, e \in EndTimes, sch \in Schemas :
           spaces = {SpaceRow(st, e, sch)}
    /\ session \in Identities \cup {NoUser}
    /\ \E have \in SUBSET (Identities \cap {session}) :
           users = {UserRow(i) : i \in have}
    /\ attendance_records = <<EarlierRecord>>
    /\ code \in Codes
    /\ user = NoUser
    /\ space = NoSpace
    /\ loading = TRUE
    /\ isSubmitting = FALSE
    /\ submitted = FALSE
    /\ error = NoError
    /\ formValues = << >>
    /\ formErrors = {}
    /\ runs = << >>
    /\ inserts = << >>
    /\ lastToast = "none"
    /\ AuthIdle
    /\ AppIdle

SpecStore == InitStore /\ [][Next]_vars

----------------------------------------------------------------------------
(* User provisioning: auth.users with the on_auth_user_created trigger, the
   backfill of migration 20250720223801, and the auth context's
   fetchUserProfile / createUserProfile for the signed-in identity *)

\* Identities (uuid text): the first two agree on their first eight characters
PrefixLen == 8
IdA1 == <<"4", "f", "2", "a", "9", "c", "0", "1", "-", "1">>
IdA2 == <<"4", "f", "2", "a", "9", "c", "0", "1", "-", "2">>
IdB == <<"7", "b", "3", "e", "5", "d", "6", "6", "-", "1">>
AuthIds == {IdA1, IdA2, IdB}
NoId == << >>                    \* no identity (null) among uuid texts

\* auth.users holds one user per email: each identity has its own
EmailOf(id) ==
    IF id = IdA1 THEN EmailGood
    ELSE IF id = IdA2 THEN EmailSub
    ELSE <<"c", "@", "b", ".", "c", "o">>

\* 'USER-' || SUBSTRING(id, 1, 8), `USER-${userId.substring(0, 8)}`
UserIdOf(id) == <<"U", "S", "E", "R", "-">> \o SubSeq(id, 1, PrefixLen)

\* generate_user_id(): 'USR-' and five random digits
GeneratedUserIds ==
    { <<"U", "S", "R", "-", "0", "0", "0", "0", "1">>,
      <<"U", "S", "R", "-", "0", "0", "0", "0", "4">> }

\* SPLIT_PART(email, '@', 1)
LocalPart(email) ==
    IF \E i \in 1..Len(email) : email[i] = "@"
    THEN SubSeq(email, 1,
                (CHOOSE i \in 1..Len(email) :
                    email[i] = "@" /\ \A j \in 1..(i - 1) : email[j] # "@") - 1)
    ELSE email

\* role: the sign-up metadata carry none, COALESCE(..., 'user') / || 'user'
ProfileRow(id, user_id, email, full_name) ==
    [id |-> id, user_id |-> user_id, email |-> email, full_name |-> full_name,
     role |-> "user"]

\* public.users: id PRIMARY KEY, user_id UNIQUE, email UNIQUE
ViolatesUsersConstraints(row, table) ==
    \E u \in table :
        u.id = row.id \/ u.user_id = row.user_id \/ u.email = row.email

\* INSERT INTO public.users inside the trigger function
TriggerInsert(row) ==
    IF ViolatesUsersConstraints(row, users)
    THEN [raised |-> TRUE, table |-> users]
    ELSE [raised |-> FALSE, table |-> users \cup {row}]

\* handle_new_user() of migration 20250717033850: EXCEPTION WHEN OTHERS THEN
\* RAISE NOTICE ...; RETURN NEW
handle_new_user_robust(new, gen) ==
    [raised |-> FALSE,
     table |-> TriggerInsert(ProfileRow(new.id, gen, new.email, new.full_name)).table]

\* handle_new_user() of migration 20250720223801: no exception handler
handle_new_user(new) ==
    TriggerInsert(ProfileRow(new.id, UserIdOf(new.id), new.email, new.full_name))

\* supabase.auth.signUp for a new identity: the insert into auth.users and its
\* AFTER INSERT trigger are one transaction; an exception leaving the trigger
\* function aborts it
SignUp(id, gen) ==
    /\ signups[id] = "none"
    /\ LET new == [id |-> id, email |-> EmailOf(id), full_name |-> Jane]
           res == IF migration = "applied" THEN handle_new_user(new)
                  ELSE handle_new_user_robust(new, gen)
       IN  IF res.raised
           THEN /\ signups' = [signups EXCEPT ![id] = "aborted"]
                /\ UNCHANGED <<auth_users, users>>
           ELSE /\ signups' = [signups EXCEPT ![id] = "created"]
                /\ auth_users' = auth_users \cup {new}
                /\ users' = res.table
    /\ UNCHANGED <<migration, calls, profile>>
    /\ UNCHANGED <<now, spaces, attendance_records, session, code, user, pageVars,
                 appVars>>

\* UPDATE public.users SET user_id = ... WHERE user_id = '', SET full_name =
\* ... WHERE full_name = ''
FixRow(u) ==
    [u EXCEPT !.user_id = IF @ = Empty THEN UserIdOf(u.id) ELSE @,
              !.full_name = IF @ = Empty THEN LocalPart(u.email) ELSE @]

\* migration 20250720223801 is applied: the function is replaced and the
\* backfill inserts a row for every auth user without one, in one statement;
\* a constraint violation fails the statement and with it the migration
ApplyMigration ==
    /\ migration = "pending"
    /\ LET missing == {a \in auth_users : ~\E u \in users : u.id = a.id}
           rows == {ProfileRow(a.id, UserIdOf(a.id), a.email, a.full_name) :
                       a \in missing}
       IN  IF \E r \in rows : ViolatesUsersConstraints(r, users \cup (rows \ {r}))
           THEN /\ migration' = "failed"
                /\ UNCHANGED users
           ELSE /\ migration' = "applied"
                /\ users' = {FixRow(u) : u \in users \cup rows}
    /\ UNCHANGED <<auth_users, signups, calls, profile>>
    /\ UNCHANGED <<now, spaces, attendance_records, session, code, user, pageVars,
                 appVars>>

\* a fetchUserProfile(userId) call at its select; own: made by the client whose
\* profile state is followed
ProfileCall(id, own) ==
    [id |-> id, pc |-> "select", userData |-> NoRow, transport |-> TRUE,
     own |-> own]

\* onAuthStateChange / getSession().then in the client of a signed-up
\* identity id: fetchUserProfile(session.user.id) up to its select
StartProfileFetch(id) ==
    /\ Len(calls) < MaxCalls
    /\ \E a \in auth_users : a.id = id
    /\ calls' = Append(calls, ProfileCall(id, id = session))
    /\ UNCHANGED <<auth_users, migration, signups, profile>>
    /\ UNCHANGED <<now, storeVars, session, code, user, pageVars,
                 appVars>>

\* fetchUserProfile returns value v: setProfile(v) in the calling client
ReturnProfile(c, v, transport) ==
    /\ calls' = [calls EXCEPT ![c].pc = "done",
                              ![c].transport = @ /\ transport]
    /\ profile' = IF calls[c].own THEN v ELSE profile

\* policy "Users can view their own data", then
\* .from('users').select('*').eq('id', userId).maybeSingle() returns: a row ->
\* return it; no row or an error -> createUserProfile(userId), up to getUser
SelectProfileResponse(c, net) ==
    /\ c \in 1..Len(calls)
    /\ calls[c].pc = "select"
    /\ LET rows == {u \in users : u.id = calls[c].id}
       IN  IF net = "ok" /\ rows # {}
           THEN ReturnProfile(c, CHOOSE u \in rows : TRUE, TRUE)
           ELSE /\ calls' = [calls EXCEPT ![c].pc = "getUser",
                                          ![c].transport = @ /\ net = "ok"]
                /\ UNCHANGED profile
    /\ UNCHANGED <<auth_users, migration, signups>>
    /\ UNCHANGED <<now, storeVars, session, code, user, pageVars,
                 appVars>>

\* createUserProfile: supabase.auth.getUser() returns the user of the session
\* the calling client holds; no user -> return null; otherwise userData is
\* built and the insert goes out
GetUserResponse(c, net) ==
    /\ c \in 1..Len(calls)
    /\ calls[c].pc = "getUser"
    /\ LET holder == IF calls[c].own THEN session ELSE calls[c].id
           found == {a \in auth_users : a.id = holder}
       IN  IF net = "ok" /\ found # {}
           THEN LET a == CHOOSE x \in found : TRUE
                IN  /\ calls' = [calls EXCEPT
                          ![c].pc = "insert",
                          ![c].userData = ProfileRow(calls[c].id, UserIdOf(calls[c].id),
                                                     a.email, a.full_name)]
                    /\ UNCHANGED profile
           ELSE ReturnProfile(c, NoRow, net = "ok")
    /\ UNCHANGED <<auth_users, migration, signups>>
    /\ UNCHANGED <<now, storeVars, session, code, user, pageVars,
                 appVars>>

\* policy "Allow user creation during signup" (WITH CHECK (true)), then
\* .from('users').insert(userData).select().single() returns: the row created
\* -> return it; an error -> return null
InsertProfileResponse(c, net) ==
    /\ c \in 1..Len(calls)
    /\ calls[c].pc = "insert"
    /\ IF net = "ok" /\ ~ViolatesUsersConstraints(calls[c].userData, users)
       THEN /\ users' = users \cup {calls[c].userData}
            /\ ReturnProfile(c, calls[c].userData, TRUE)
       ELSE /\ UNCHANGED users
            /\ ReturnProfile(c, NoRow, net = "ok")
    /\ UNCHANGED <<auth_users, migration, signups>>
    /\ UNCHANGED <<now, spaces, attendance_records, session, code, user, pageVars,
                 appVars>>

\* A deployment with or without the last migration, nobody signed up yet;
\* session is the identity whose client's profile state is followed; the
\* attendance page is not open
InitAuth ==
    /\ now = 0
    /\ spaces = {}
    /\ users = {}
    /\ attendance_records = << >>
    /\ session \in AuthIds
    /\ code = NoCode
    /\ user = NoUser
    /\ space = NoSpace
    /\ loading = TRUE
    /\ isSubmitting = FALSE
    /\ submitted = FALSE
    /\ error = NoError
    /\ formValues = << >>
    /\ formErrors = {}
    /\ runs = << >>
    /\ inserts = << >>
    /\ lastToast = "none"
    /\ auth_users = {}
    /\ migration \in {"pending", "applied"}
    /\ signups = [id \in AuthIds |-> "none"]
    /\ calls = << >>
    /\ profile = NoRow
    /\ AppIdle

NextAuth ==
    \/ \E id \in AuthIds, gen \in GeneratedUserIds : SignUp(id, gen)
    \/ ApplyMigration
    \/ \E id \in AuthIds : StartProfileFetch(id)
    \/ \E c \in 1..MaxCalls, net \in {"ok", "error"} : SelectProfileResponse(c, net)
    \/ \E c \in 1..MaxCalls, net \in {"ok", "error"} : GetUserResponse(c, net)
    \/ \E c \in 1..MaxCalls, net \in {"ok", "error"} : InsertProfileResponse(c, net)

SpecAuth == InitAuth /\ [][NextAuth]_vars

----------------------------------------------------------------------------
(* CreateSpace (route /create-space): the page of each client, the insert
   into public.spaces and the policy "Admins can manage their own spaces" *)

\* a public.users row with its role column (user_role: 'admin' | 'user')
RoleRow(id, user_id, role) ==
    [id |-> id, user_id |-> user_id, email |-> EmailOf(id), full_name |-> Jane,
     role |-> role]

\* the profile role of identity id, "none" without a profile row
RoleOf(id) ==
    IF \E u \in users : u.id = id
    THEN (CHOOSE u \in users : u.id = id).role
    ELSE "none"

\* gen_random_uuid() for spaces.id: an id no row carries
SpaceIds == {"s1", "s2", "s3"}
NewSpaceId == CHOOSE i \in SpaceIds : \A s \in spaces : s.id # i

\* generateUniqueCode(): 'TEND-' and up to five random base-36 characters
GeneratedCodes == {SpaceCode, "TEND-7K2QX"}

\* the title input
Titles == {"", "Algebra"}

\* formSchema: title min(1), type one of the enum (the select offers no other)
FormSchemaValid(data) ==
    data.title # "" /\ data.type \in {"Class", "Event", "Custom"}

\* spaceData of onSubmit; JSON.stringify(customFields) reaches the jsonb column
\* as a JSON string, not as an array
SpaceData(data, uid, uniqueCode) ==
    [title |-> data.title, type |-> data.type, admin_id |-> uid,
     required_fields |-> NotAnArray, unique_code |-> uniqueCode,
     end_time |-> NoTime]

\* the row the store creates: id and status take their defaults
CreatedRow(id, spaceData) ==
    [id |-> id, title |-> spaceData.title, type |-> spaceData.type,
     admin_id |-> spaceData.admin_id,
     required_fields |-> spaceData.required_fields,
     unique_code |-> spaceData.unique_code, status |-> "open",
     end_time |-> spaceData.end_time]

\* policy "Admins can manage their own spaces" FOR ALL
\* WITH CHECK (admin_id = auth.uid())
SpacesInsertPolicy(uid, row) == row.admin_id = uid

\* public.spaces without UNIQUE on unique_code
SpacesConstraintsNoUnique(row) ==
    /\ row.type \in {"Class", "Event", "Custom"}
    /\ \E a \in auth_users : a.id = row.admin_id

\* public.spaces: CHECK (type IN ...), admin_id REFERENCES auth.users(id),
\* unique_code UNIQUE
SpacesConstraints(row) ==
    /\ row.type \in {"Class", "Event", "Custom"}
    /\ \E a \in auth_users : a.id = row.admin_id
    /\ \A s \in spaces : s.unique_code # row.unique_code

\* the store accepts the insert sent by the client of identity uid
SpacesInsertAccepted(uid, spaceData) ==
    /\ SpacesInsertPolicy(uid, spaceData)
    /\ SpacesConstraints(spaceData)

\* the page as constructed: useState initial values
CreatePage(u) ==
    [user |-> u, pc |-> "form", isSubmitting |-> FALSE, createdSpace |-> NoRow,
     toast |-> "none", spaceData |-> NoRow, uniqueCode |-> NoCode]

\* form.handleSubmit(onSubmit) on the submit button: onSubmit up to the
\* awaited QRCode.toDataURL
CreateSubmit(c, title, gen) ==
    /\ c \in DOMAIN createSpace
    /\ createSpace[c].createdSpace = NoRow
    /\ ~createSpace[c].isSubmitting
    /\ LET data == [title |-> title, type |-> "Class"]
       IN  IF ~FormSchemaValid(data)
           THEN UNCHANGED createSpace
           ELSE IF createSpace[c].user = NoId
           THEN createSpace' = [createSpace EXCEPT ![c].toast = "Error"]
           ELSE createSpace' = [createSpace EXCEPT
                    ![c].isSubmitting = TRUE,
                    ![c].pc = "qr",
                    ![c].uniqueCode = gen,
                    ![c].spaceData = SpaceData(data, createSpace[c].user, gen)]
    /\ UNCHANGED <<now, storeVars, session, code, user, pageVars, authVars,
                   sessionVars, communityVars, dashboardVars>>

\* QRCode.toDataURL returns: resolved -> the insert goes out; rejected -> catch
\* (failure toast) and finally
QrReturns(c, ok) ==
    /\ c \in DOMAIN createSpace
    /\ createSpace[c].pc = "qr"
    /\ IF ok
       THEN createSpace' = [createSpace EXCEPT ![c].pc = "insert"]
       ELSE createSpace' = [createSpace EXCEPT ![c].pc = "form",
                                               ![c].toast = "Error",
                                               ![c].isSubmitting = FALSE]
    /\ UNCHANGED <<now, storeVars, session, code, user, pageVars, authVars,
                   sessionVars, communityVars, dashboardVars>>

\* .from('spaces').insert(spaceData).select().single() returns: the row ->
\* setCreatedSpace and the success toast; an error value or a throw -> catch
\* (failure toast); finally clears isSubmitting
InsertSpaceResponse(c, net) ==
    /\ c \in DOMAIN createSpace
    /\ createSpace[c].pc = "insert"
    /\ IF net = "ok" /\ SpacesInsertAccepted(c, createSpace[c].spaceData)
       THEN LET row == CreatedRow(NewSpaceId, createSpace[c].spaceData)
            IN  /\ spaces' = spaces \cup {row}
                /\ createSpace' = [createSpace EXCEPT
                       ![c].pc = "form",
                       ![c].createdSpace = row,
                       ![c].toast = "Success",
                       ![c].isSubmitting = FALSE]
       ELSE /\ UNCHANGED spaces
            /\ createSpace' = [createSpace EXCEPT
                   ![c].pc = "form",
                   ![c].toast = "Error",
                   ![c].isSubmitting = FALSE]
    /\ UNCHANGED <<now, users, attendance_records, session, code, user,
                   pageVars, authVars,
                   sessionVars, communityVars, dashboardVars>>

\* "Create Another Space": setCreatedSpace(null)
CreateAnother(c) ==
    /\ c \in DOMAIN createSpace
    /\ createSpace[c].createdSpace # NoRow
    /\ createSpace' = [createSpace EXCEPT ![c].createdSpace = NoRow]
    /\ UNCHANGED <<now, storeVars, session, code, user, pageVars, authVars,
                   sessionVars, communityVars, dashboardVars>>

\* Three signed-up identities, two with the admin role and one with the user
\* role, each with the page open (the auth context may not have delivered the
\* user yet); the table empty or holding a space created earlier
InitCreate ==
    /\ now = 0
    /\ auth_users = {[id |-> id, email |-> EmailOf(id), full_name |-> Jane] :
                        id \in AuthIds}
    /\ users = {RoleRow(IdA1, <<"U", "S", "R", "-", "0", "0", "0", "0", "1">>,
                        "admin"),
                RoleRow(IdA2, <<"U", "S", "R", "-", "0", "0", "0", "0", "4">>,
                        "admin"),
                RoleRow(IdB, UserIdOf(IdB), "user")}
    /\ \/ spaces = {}
       \/ spaces = {CreatedRow("s1",
                        SpaceData([title |-> "Algebra", type |-> "Class"],
                                  IdA1, SpaceCode))}
    /\ attendance_records = << >>
    /\ session = NoUser
    /\ code = NoCode
    /\ user = NoUser
    /\ space = NoSpace
    /\ loading = TRUE
    /\ isSubmitting = FALSE
    /\ submitted = FALSE
    /\ error = NoError
    /\ formValues = << >>
    /\ formErrors = {}
    /\ runs = << >>
    /\ inserts = << >>
    /\ lastToast = "none"
    /\ migration = "applied"
    /\ signups = [id \in AuthIds |-> "created"]
    /\ calls = << >>
    /\ profile = NoRow
    /\ profileUpdates = << >>
    /\ notifications = {}
    /\ authTasks = [getSession |-> "idle"]
    /\ community_members = {}
    /\ communityPage = NoRow
    /\ dashboard = NoRow
    /\ \E anon \in SUBSET AuthIds :
          createSpace = [c \in AuthIds |->
                            CreatePage(IF c \in anon THEN NoId ELSE c)]

NextCreate ==
    \/ \E c \in AuthIds, title \in Titles, gen \in GeneratedCodes :
          CreateSubmit(c, title, gen)
    \/ \E c \in AuthIds, ok \in BOOLEAN : QrReturns(c, ok)
    \/ \E c \in AuthIds, net \in {"ok", "error", "throw"} :
          InsertSpaceResponse(c, net)
    \/ \E c \in AuthIds : CreateAnother(c)

SpecCreate == InitCreate /\ [][NextCreate]_vars

----------------------------------------------------------------------------
(* The auth context of one client over its sessions: onAuthStateChange,
   getSession, signIn, signOut, updateProfile; Settings.requestAdminRights
   and the Profile page as callers of updateProfile *)

\* the onAuthStateChange / getSession().then callback body for the session the
\* client holds: setUser(session?.user ?? null); with a user, fetchUserProfile
\* goes out
SetUserAndFetch ==
    /\ user' = session
    /\ IF session # NoId
       THEN /\ Len(calls) < MaxCalls
            /\ calls' = Append(calls, ProfileCall(session, TRUE))
       ELSE UNCHANGED calls

\* the onAuthStateChange callback fires with the session held (INITIAL_SESSION,
\* TOKEN_REFRESHED, SIGNED_IN on regained focus): without a user setProfile(null)
AuthEvent ==
    /\ SetUserAndFetch
    /\ profile' = IF session # NoId THEN profile ELSE NoRow
    /\ UNCHANGED <<auth_users, migration, signups>>
    /\ UNCHANGED <<now, storeVars, session, code, pageVars, appVars>>

\* supabase.auth.getSession().then(...), once per mount
GetSessionReturns ==
    /\ authTasks.getSession = "pending"
    /\ authTasks' = [authTasks EXCEPT !.getSession = "done"]
    /\ SetUserAndFetch
    /\ UNCHANGED <<auth_users, migration, signups, profile>>
    /\ UNCHANGED <<now, storeVars, session, code, pageVars, createVars,
                   profileUpdates, notifications, communityVars, dashboardVars>>

\* signIn: signInWithPassword stores the session and the SIGNED_IN event runs
\* the callback
SignIn(id) ==
    /\ session = NoId
    /\ \E a \in auth_users : a.id = id
    /\ Len(calls) < MaxCalls
    /\ session' = id
    /\ user' = id
    /\ calls' = Append(calls, ProfileCall(id, TRUE))
    /\ UNCHANGED <<auth_users, migration, signups, profile>>
    /\ UNCHANGED <<now, storeVars, code, pageVars, appVars>>

\* signOut: supabase.auth.signOut() drops the session, the SIGNED_OUT event runs
\* the callback, then setUser(null), setSession(null), setProfile(null)
SignOut ==
    /\ session # NoId
    /\ session' = NoId
    /\ user' = NoId
    /\ profile' = NoRow
    /\ UNCHANGED <<auth_users, migration, signups, calls>>
    /\ UNCHANGED <<now, storeVars, code, pageVars, appVars>>

\* { ...profile, ...updates }
Merge(row, updates) ==
    [k \in DOMAIN row \cup DOMAIN updates |->
        IF k \in DOMAIN updates THEN updates[k] ELSE row[k]]

\* the updates passed by the callers: Settings.requestAdminRights and
\* Profile.handleSubmit
UpdatesOf(caller) ==
    IF caller = "requestAdminRights" THEN [role |-> "admin"]
    ELSE [full_name |-> Abc]

\* updateProfile(updates) called by caller: without a user it returns
\* { error: 'No user logged in' }; otherwise the update goes out, with the
\* user and profile of the render that made the call
UpdateProfile(caller) ==
    /\ Len(profileUpdates) < MaxUpdates
    /\ IF user = NoId
       THEN /\ profileUpdates' = Append(profileUpdates,
                   [caller |-> caller, updates |-> UpdatesOf(caller),
                    user |-> user, profile |-> profile, pc |-> "done",
                    result |-> "No user logged in"])
            /\ lastToast' = IF caller = "requestAdminRights" THEN "Error"
                            ELSE lastToast
       ELSE /\ profileUpdates' = Append(profileUpdates,
                   [caller |-> caller, updates |-> UpdatesOf(caller),
                    user |-> user, profile |-> profile, pc |-> "update",
                    result |-> "none"])
            /\ UNCHANGED lastToast
    /\ UNCHANGED <<authVars, createVars, notifications, authTasks,
                   communityVars, dashboardVars>>
    /\ UNCHANGED <<now, storeVars, session, code, user, space, loading,
                   isSubmitting, submitted, error, formValues, formErrors,
                   runs, inserts>>

\* policy "Users can update their own data" USING (auth.uid() = id), then
\* UPDATE public.users SET ... WHERE id = uid
UpdateUsersRow(uid, updates) ==
    {IF u.id = uid THEN Merge(u, updates) ELSE u : u \in users}

\* updateProfile that merges the local profile whatever the store answered
UpdateProfileResponseAlwaysMerge(i, net) ==
    /\ i \in 1..Len(profileUpdates)
    /\ profileUpdates[i].pc = "update"
    /\ LET call == profileUpdates[i]
           failed == net # "ok"
           result == IF failed THEN "error" ELSE "null"
           next == IF call.caller = "requestAdminRights" /\ ~failed
                   THEN "notify" ELSE "done"
       IN  /\ users' = IF failed THEN users
                       ELSE UpdateUsersRow(call.user, call.updates)
           /\ profile' = IF call.profile # NoRow
                         THEN Merge(call.profile, call.updates)
                         ELSE profile
           /\ profileUpdates' = [profileUpdates EXCEPT ![i].pc = next,
                                                       ![i].result = result]
           /\ lastToast' = IF call.caller = "requestAdminRights" /\ failed
                           THEN "Error" ELSE lastToast
    /\ UNCHANGED <<auth_users, migration, signups, calls>>
    /\ UNCHANGED <<createVars, notifications, authTasks, communityVars,
                   dashboardVars>>
    /\ UNCHANGED <<now, spaces, attendance_records, session, code, user, space,
                   loading, isSubmitting, submitted, error, formValues,
                   formErrors, runs, inserts>>

\* the users update of call i returns: no error -> setProfile({ ...profile,
\* ...updates }) when the caller's render had a profile; an error value or a
\* throw -> { error }. requestAdminRights goes on: an error is thrown into
\* its catch (error toast), otherwise the notifications insert goes out
UpdateProfileResponse(i, net) ==
    /\ i \in 1..Len(profileUpdates)
    /\ profileUpdates[i].pc = "update"
    /\ LET call == profileUpdates[i]
           failed == net # "ok"
           result == IF failed THEN "error" ELSE "null"
           next == IF call.caller = "requestAdminRights" /\ ~failed
                   THEN "notify" ELSE "done"
       IN  /\ users' = IF failed THEN users
                       ELSE UpdateUsersRow(call.user, call.updates)
           /\ profile' = IF ~failed /\ call.profile # NoRow
                         THEN Merge(call.profile, call.updates)
                         ELSE profile
           /\ profileUpdates' = [profileUpdates EXCEPT ![i].pc = next,
                                                       ![i].result = result]
           /\ lastToast' = IF call.caller = "requestAdminRights" /\ failed
                           THEN "Error" ELSE lastToast
    /\ UNCHANGED <<auth_users, migration, signups, calls>>
    /\ UNCHANGED <<createVars, notifications, authTasks, communityVars,
                   dashboardVars>>
    /\ UNCHANGED <<now, spaces, attendance_records, session, code, user, space,
                   loading, isSubmitting, submitted, error, formValues,
                   formErrors, runs, inserts>>

\* public.notifications: CHECK (type IN ('event_invite', 'community_invite',
\* 'attendance_reminder', 'general')), user_id NOT NULL
NotificationTypes ==
    {"event_invite", "community_invite", "attendance_reminder", "general"}
NotificationAccepted(row) ==
    row.type \in NotificationTypes /\ row.user_id # NoId

\* the row requestAdminRights inserts
AdminApproved(uid) ==
    [user_id |-> uid, title |-> "Admin Rights Approved",
     type |-> "admin_approved"]

\* the notifications insert of requestAdminRights returns: its result is not
\* read, the success toast follows; a throw lands in the catch (error toast)
NotificationResponse(i, net) ==
    /\ i \in 1..Len(profileUpdates)
    /\ profileUpdates[i].pc = "notify"
    /\ LET row == AdminApproved(profileUpdates[i].user)
       IN  notifications' = IF net = "ok" /\ NotificationAccepted(row)
                            THEN notifications \cup {row}
                            ELSE notifications
    /\ lastToast' = IF net = "throw" THEN "Error" ELSE "Admin Rights Granted"
    /\ profileUpdates' = [profileUpdates EXCEPT ![i].pc = "done"]
    /\ UNCHANGED <<authVars, createVars, authTasks, communityVars,
                   dashboardVars>>
    /\ UNCHANGED <<now, storeVars, session, code, user, space, loading,
                   isSubmitting, submitted, error, formValues, formErrors,
                   runs, inserts>>

\* Two signed-up identities; the first with or without its profile row; the
\* client starts with or without a stored session of the first, the auth
\* provider just mounted
InitSession ==
    /\ now = 0
    /\ spaces = {}
    /\ auth_users = {[id |-> id, email |-> EmailOf(id), full_name |-> Jane] :
                        id \in {IdA1, IdB}}
    /\ \E have \in SUBSET {IdA1} :
          users = {ProfileRow(id, UserIdOf(id), EmailOf(id), Jane) :
                      id \in have \cup {IdB}}
    /\ attendance_records = << >>
    /\ session \in {IdA1, NoId}
    /\ code = NoCode
    /\ user = NoId
    /\ space = NoSpace
    /\ loading = TRUE
    /\ isSubmitting = FALSE
    /\ submitted = FALSE
    /\ error = NoError
    /\ formValues = << >>
    /\ formErrors = {}
    /\ runs = << >>
    /\ inserts = << >>
    /\ lastToast = "none"
    /\ migration = "applied"
    /\ signups = [id \in AuthIds |-> IF id = IdA2 THEN "none" ELSE "created"]
    /\ calls = << >>
    /\ profile = NoRow
    /\ createSpace = << >>
    /\ profileUpdates = << >>
    /\ notifications = {}
    /\ authTasks = [getSession |-> "pending"]
    /\ community_members = {}
    /\ communityPage = NoRow
    /\ dashboard = NoRow

NextSession ==
    \/ AuthEvent
    \/ GetSessionReturns
    \/ \E id \in {IdA1, IdB} : SignIn(id)
    \/ SignOut
    \/ \E c \in 1..MaxCalls, net \in {"ok", "error"} : SelectProfileResponse(c, net)
    \/ \E c \in 1..MaxCalls, net \in {"ok", "error"} : GetUserResponse(c, net)
    \/ \E c \in 1..MaxCalls, net \in {"ok", "error"} : InsertProfileResponse(c, net)

SpecSession == InitSession /\ [][NextSession]_vars

\* The client with its auth context settled: signed in with the profile
\* loaded or not (yet), or signed out; Settings and the Profile page call
\* updateProfile
InitProfile ==
    /\ now = 0
    /\ spaces = {}
    /\ auth_users = {[id |-> id, email |-> EmailOf(id), full_name |-> Jane] :
                        id \in {IdA1, IdB}}
    /\ users = {ProfileRow(id, UserIdOf(id), EmailOf(id), Jane) :
                   id \in {IdA1, IdB}}
    /\ attendance_records = << >>
    /\ session \in {IdA1, NoId}
    /\ code = NoCode
    /\ user = session
    /\ space = NoSpace
    /\ loading = TRUE
    /\ isSubmitting = FALSE
    /\ submitted = FALSE
    /\ error = NoError
    /\ formValues = << >>
    /\ formErrors = {}
    /\ runs = << >>
    /\ inserts = << >>
    /\ lastToast = "none"
    /\ migration = "applied"
    /\ signups = [id \in AuthIds |-> IF id = IdA2 THEN "none" ELSE "created"]
    /\ calls = << >>
    /\ \/ profile = NoRow
       \/ /\ session # NoId
          /\ profile = ProfileRow(IdA1, UserIdOf(IdA1), EmailOf(IdA1), Jane)
    /\ createSpace = << >>
    /\ profileUpdates = << >>
    /\ notifications = {}
    /\ authTasks = [getSession |-> "done"]
    /\ community_members = {}
    /\ communityPage = NoRow
    /\ dashboard = NoRow

NextProfile ==
    \/ \E caller \in {"requestAdminRights", "Profile"} : UpdateProfile(caller)
    \/ \E i \in 1..MaxUpdates, net \in {"ok", "error", "throw"} :
          UpdateProfileResponse(i, net)
    \/ \E i \in 1..MaxUpdates, net \in {"ok", "error", "throw"} :
          NotificationResponse(i, net)
    \/ SignOut

SpecProfile == InitProfile /\ [][NextProfile]_vars

----------------------------------------------------------------------------
(* The Dashboard page (src/README.md): fetchSpaces, View Records and the     *)
(* status menu's updateSpaceStatus. Every updateSpaceStatus call keeps the   *)
(* spaces and selectedSpace of the render whose menu item was clicked.       *)

\* the second space of the admin
SecondCode == "TEND-7K2QX"

\* the page as constructed: useState initial values, nothing in flight
DashboardPage(u) ==
    [user |-> u, spaces |-> {}, selectedSpace |-> NoRow,
     attendanceRecords |-> << >>, loading |-> TRUE, recordsLoading |-> FALSE,
     fetch |-> "idle", recordsFetches |-> {}, updates |-> << >>,
     toast |-> "none"]

\* spaces.map(space => space.id === spaceId ? { ...space, status } : space)
MapStatus(list, spaceId, status) ==
    {IF sp.id = spaceId THEN [sp EXCEPT !.status = status] ELSE sp : sp \in list}

\* useEffect(() => { fetchSpaces() }, []): without a user it returns at once
DashboardMount ==
    /\ dashboard.fetch = "idle"
    /\ dashboard' = [dashboard EXCEPT
                        !.fetch = IF dashboard.user = NoId THEN "done"
                                  ELSE "pending"]
    /\ UNCHANGED <<now, storeVars, session, code, user, pageVars, authVars,
                   createVars, sessionVars, communityVars>>

\* fetchSpaces: the select of the admin's spaces returns
FetchSpacesResponse(net) ==
    /\ dashboard.fetch = "pending"
    /\ dashboard' =
          [dashboard EXCEPT
              !.fetch = "done",
              !.spaces = IF net = "ok"
                         THEN {sp \in SpacesVisibleTo(session) :
                                  sp.admin_id = dashboard.user}
                         ELSE @,
              !.toast = IF net = "ok" THEN @ ELSE "Failed to load spaces",
              !.loading = FALSE]
    /\ UNCHANGED <<now, storeVars, session, code, user, pageVars, authVars,
                   createVars, sessionVars, communityVars>>

\* View Records: setSelectedSpace(space); fetchAttendanceRecords(space.id)
ViewRecords(spaceId) ==
    /\ ~dashboard.loading
    /\ spaceId \notin dashboard.recordsFetches
    /\ \E sp \in dashboard.spaces :
          /\ sp.id = spaceId
          /\ dashboard' = [dashboard EXCEPT
                              !.selectedSpace = sp,
                              !.recordsLoading = TRUE,
                              !.recordsFetches = @ \cup {spaceId}]
    /\ UNCHANGED <<now, storeVars, session, code, user, pageVars, authVars,
                   createVars, sessionVars, communityVars>>

\* fetchAttendanceRecords: the select of the space's records returns
RecordsResponse(spaceId, net) ==
    /\ spaceId \in dashboard.recordsFetches
    /\ dashboard' =
          [dashboard EXCEPT
              !.recordsFetches = @ \ {spaceId},
              !.attendanceRecords =
                  IF net = "ok"
                  THEN SelectSeq(attendance_records,
                                 LAMBDA r : r.space_id = spaceId)
                  ELSE @,
              !.toast = IF net = "ok" THEN @
                        ELSE "Failed to load attendance records",
              !.recordsLoading = FALSE]
    /\ UNCHANGED <<now, storeVars, session, code, user, pageVars, authVars,
                   createVars, sessionVars, communityVars>>

\* a status menu item of the rendered list is clicked: updateSpaceStatus
\* starts and sends update({ status }).eq('id', spaceId)
StatusMenuClick(spaceId, status) ==
    /\ ~dashboard.loading
    /\ Len(dashboard.updates) < MaxStatusCalls
    /\ \E sp \in dashboard.spaces : sp.id = spaceId /\ sp.status # status
    /\ dashboard' =
          [dashboard EXCEPT
              !.updates = Append(@, [spaceId |-> spaceId, status |-> status,
                                     spaces |-> dashboard.spaces,
                                     selectedSpace |-> dashboard.selectedSpace,
                                     pc |-> "sent", error |-> FALSE])]
    /\ UNCHANGED <<now, storeVars, session, code, user, pageVars, authVars,
                   createVars, sessionVars, communityVars>>

\* the store handles the update under policy "Admins can manage their own
\* spaces"; a request that fails changes no row
SpacesUpdate(i, net) ==
    /\ i \in 1..Len(dashboard.updates)
    /\ dashboard.updates[i].pc = "sent"
    /\ LET call == dashboard.updates[i]
           hit == {sp \in spaces : sp.id = call.spaceId /\ sp.admin_id = session}
       IN  /\ spaces' = IF net = "ok"
                        THEN (spaces \ hit)
                             \cup {[sp EXCEPT !.status = call.status] : sp \in hit}
                        ELSE spaces
           /\ dashboard' = [dashboard EXCEPT
                               !.updates[i].pc = "applied",
                               !.updates[i].error = (net # "ok")]
    /\ UNCHANGED <<now, users, attendance_records, session, code, user, pageVars,
                   authVars, createVars, sessionVars, communityVars>>

\* updateSpaceStatus after the await: on an error the catch raises the toast;
\* otherwise setSpaces and setSelectedSpace are computed from the spaces and
\* selectedSpace the call was created with
UpdateStatusReturns(i) ==
    /\ i \in 1..Len(dashboard.updates)
    /\ dashboard.updates[i].pc = "applied"
    /\ LET call == dashboard.updates[i]
       IN  dashboard' =
              IF call.error
              THEN [dashboard EXCEPT
                       !.updates[i].pc = "done",
                       !.toast = "Failed to update space status"]
              ELSE [dashboard EXCEPT
                       !.updates[i].pc = "done",
                       !.spaces = MapStatus(call.spaces, call.spaceId,
                                            call.status),
                       !.selectedSpace =
                           IF call.selectedSpace # NoRow
                              /\ call.selectedSpace.id = call.spaceId
                           THEN [call.selectedSpace EXCEPT
                                    !.status = call.status]
                           ELSE @,
                       !.toast = "Space " \o call.status \o " successfully"]
    /\ UNCHANGED <<now, storeVars, session, code, user, pageVars, authVars,
                   createVars, sessionVars, communityVars>>

\* the admin's Dashboard is mounted over two spaces of theirs and one of
\* another admin
InitDashboard ==
    /\ now = 0
    /\ auth_users = {[id |-> id, email |-> EmailOf(id), full_name |-> Jane] :
                        id \in AuthIds}
    /\ users = {RoleRow(IdA1, <<"U", "S", "R", "-", "0", "0", "0", "0", "1">>,
                        "admin"),
                RoleRow(IdA2, <<"U", "S", "R", "-", "0", "0", "0", "0", "4">>,
                        "admin")}
    /\ \E st \in Statuses :
          spaces = {[CreatedRow("s1", SpaceData([title |-> "Algebra",
                                                  type |-> "Class"],
                                                 IdA1, SpaceCode))
                        EXCEPT !.status = st],
                    CreatedRow("s2", SpaceData([title |-> "Algebra",
                                                type |-> "Event"],
                                               IdA1, SecondCode)),
                    CreatedRow("s3", SpaceData([title |-> "Algebra",
                                                type |-> "Class"],
                                               IdA2, OtherCode))}
    /\ attendance_records = << >>
    /\ session \in {IdA1, NoId}
    /\ code = NoCode
    /\ user = session
    /\ space = NoSpace
    /\ loading = TRUE
    /\ isSubmitting = FALSE
    /\ submitted = FALSE
    /\ error = NoError
    /\ formValues = << >>
    /\ formErrors = {}
    /\ runs = << >>
    /\ inserts = << >>
    /\ lastToast = "none"
    /\ migration = "applied"
    /\ signups = [id \in AuthIds |-> "created"]
    /\ calls = << >>
    /\ profile = NoRow
    /\ createSpace = << >>
    /\ profileUpdates = << >>
    /\ notifications = {}
    /\ authTasks = [getSession |-> "idle"]
    /\ community_members = {}
    /\ communityPage = NoRow
    /\ dashboard = DashboardPage(session)

NextDashboard ==
    \/ DashboardMount
    \/ \E net \in {"ok", "error"} : FetchSpacesResponse(net)
    \/ \E id \in SpaceIds : ViewRecords(id)
    \/ \E id \in SpaceIds, net \in {"ok", "error"} : RecordsResponse(id, net)
    \/ \E id \in SpaceIds, st \in Statuses : StatusMenuClick(id, st)
    \/ \E i \in 1..MaxStatusCalls, net \in {"ok", "error", "throw"} :
          SpacesUpdate(i, net)
    \/ \E i \in 1..MaxStatusCalls : UpdateStatusReturns(i)

SpecDashboard == InitDashboard /\ [][NextDashboard]_vars

----------------------------------------------------------------------------
(* The Communities page (src/src/pages/Communities.tsx): fetchCommunities    *)
(* and joinCommunity over table community_members.                           *)

JoinedMsg == "Joined community successfully!"
JoinFailedMsg == "Failed to join community"
LoadFailedMsg == "Failed to load communities"

\* table public.communities: two public communities
CommunitiesTable ==
    {[id |-> "c1", type |-> "public", creator_id |-> IdA1],
     [id |-> "c2", type |-> "public", creator_id |-> IdA2]}

CommunityIds == {c.id : c \in CommunitiesTable}

\* policy "Public communities are visible to everyone"
CommunitiesVisibleTo(uid) ==
    {c \in CommunitiesTable : c.type = "public" \/ c.creator_id = uid}

\* policy "Community members can view memberships"
MembersVisibleTo(uid) ==
    {m \in community_members :
        \/ m.user_id = uid
        \/ \E c \in CommunitiesTable : c.id = m.community_id /\ c.creator_id = uid}

\* the row joinCommunity sends
MemberRow(communityId, uid) ==
    [community_id |-> communityId, user_id |-> uid, role |-> "member"]

\* policy "Users can join communities" WITH CHECK (auth.uid() = user_id),
\* community_id REFERENCES communities(id), CHECK on role,
\* UNIQUE(community_id, user_id)
MembersInsertAccepted(uid, row) ==
    /\ uid = row.user_id
    /\ row.community_id \in CommunityIds
    /\ row.role \in {"admin", "moderator", "member"}
    /\ \A m \in community_members :
          ~(m.community_id = row.community_id /\ m.user_id = row.user_id)

\* the page as constructed: useState initial values, nothing in flight
CommunitiesPage(u) ==
    [user |-> u, communities |-> {}, loading |-> TRUE, fetches |-> 0,
     mounted |-> FALSE, joins |-> << >>, toast |-> "none"]

\* useEffect(() => { fetchCommunities() }, [])
CommunitiesMount ==
    /\ ~communityPage.mounted
    /\ communityPage' = [communityPage EXCEPT !.mounted = TRUE, !.fetches = 1]
    /\ UNCHANGED <<now, storeVars, session, code, user, pageVars, authVars,
                   createVars, sessionVars, community_members, dashboardVars>>

\* communitiesWithStats: member_count and is_member of every community read
CommunitiesWithStats(uid, u) ==
    {[id |-> c.id,
      member_count |-> Cardinality({m \in MembersVisibleTo(uid) :
                                       m.community_id = c.id}),
      is_member |-> \E m \in MembersVisibleTo(uid) :
                       m.community_id = c.id /\ m.user_id = u] :
        c \in CommunitiesVisibleTo(uid)}

\* fetchCommunities: its queries return
FetchCommunitiesResponse(net) ==
    /\ communityPage.fetches > 0
    /\ communityPage' =
          [communityPage EXCEPT
              !.fetches = @ - 1,
              !.communities = IF net = "ok"
                              THEN CommunitiesWithStats(session,
                                                        communityPage.user)
                              ELSE @,
              !.toast = IF net = "ok" THEN @ ELSE LoadFailedMsg,
              !.loading = FALSE]
    /\ UNCHANGED <<now, storeVars, session, code, user, pageVars, authVars,
                   createVars, sessionVars, community_members, dashboardVars>>

\* the Join button of a listed community that is not marked is_member:
\* joinCommunity returns at once without a user, else sends the insert
JoinCommunity(communityId) ==
    /\ ~communityPage.loading
    /\ Len(communityPage.joins) < MaxJoins
    /\ \E c \in communityPage.communities : c.id = communityId /\ ~c.is_member
    /\ communityPage' =
          IF communityPage.user = NoId
          THEN communityPage
          ELSE [communityPage EXCEPT
                   !.joins = Append(@, [row |-> MemberRow(communityId,
                                                          communityPage.user),
                                        pc |-> "sent", inserted |-> FALSE,
                                        result |-> "none"])]
    /\ UNCHANGED <<now, storeVars, session, code, user, pageVars, authVars,
                   createVars, sessionVars, community_members, dashboardVars>>

\* the store handles the insert: "ok" is a request that reaches the store,
\* "error" one the store answers with an error of its own, "throw" one that
\* never reaches it
MembersInsert(i, net) ==
    /\ i \in 1..Len(communityPage.joins)
    /\ communityPage.joins[i].pc = "sent"
    /\ LET call == communityPage.joins[i]
           accepted == net = "ok" /\ MembersInsertAccepted(session, call.row)
       IN  /\ community_members' = IF accepted
                                   THEN community_members \cup {call.row}
                                   ELSE community_members
           /\ communityPage' =
                 [communityPage EXCEPT
                     !.joins[i].pc = "answered",
                     !.joins[i].inserted = accepted,
                     !.joins[i].result = IF accepted THEN "ok"
                                         ELSE IF net = "throw" THEN "throw"
                                         ELSE "error"]
    /\ UNCHANGED <<now, storeVars, session, code, user, pageVars, authVars,
                   createVars, sessionVars, dashboardVars>>

\* joinCommunity after the await: the result of the insert is not read; only
\* a thrown call reaches the catch
JoinReturns(i) ==
    /\ i \in 1..Len(communityPage.joins)
    /\ communityPage.joins[i].pc = "answered"
    /\ communityPage' =
          IF communityPage.joins[i].result = "throw"
          THEN [communityPage EXCEPT
                   !.joins[i].pc = "done",
                   !.toast = JoinFailedMsg]
          ELSE [communityPage EXCEPT
                   !.joins[i].pc = "done",
                   !.toast = JoinedMsg,
                   !.fetches = @ + 1]
    /\ UNCHANGED <<now, storeVars, session, code, user, pageVars, authVars,
                   createVars, sessionVars, community_members, dashboardVars>>

\* a signed-in user, or a visitor without user, opens the page
InitCommunities ==
    /\ now = 0
    /\ auth_users = {[id |-> id, email |-> EmailOf(id), full_name |-> Jane] :
                        id \in AuthIds}
    /\ users = {RoleRow(IdA1, <<"U", "S", "R", "-", "0", "0", "0", "0", "1">>,
                        "admin"),
                RoleRow(IdB, UserIdOf(IdB), "user")}
    /\ spaces = {}
    /\ attendance_records = << >>
    /\ session \in {IdA1, IdB, NoId}
    /\ code = NoCode
    /\ user = session
    /\ space = NoSpace
    /\ loading = TRUE
    /\ isSubmitting = FALSE
    /\ submitted = FALSE
    /\ error = NoError
    /\ formValues = << >>
    /\ formErrors = {}
    /\ runs = << >>
    /\ inserts = << >>
    /\ lastToast = "none"
    /\ migration = "applied"
    /\ signups = [id \in AuthIds |-> "created"]
    /\ calls = << >>
    /\ profile = NoRow
    /\ createSpace = << >>
    /\ profileUpdates = << >>
    /\ notifications = {}
    /\ authTasks = [getSession |-> "idle"]
    /\ \E have \in SUBSET {[community_id |-> "c1", user_id |-> IdA1,
                            role |-> "admin"],
                           MemberRow("c2", IdB)} :
          community_members = have
    /\ communityPage = CommunitiesPage(session)
    /\ dashboard = NoRow

NextCommunities ==
    \/ CommunitiesMount
    \/ \E net \in {"ok", "error"} : FetchCommunitiesResponse(net)
    \/ \E id \in CommunityIds : JoinCommunity(id)
    \/ \E i \in 1..MaxJoins, net \in {"ok", "error", "throw"} :
          MembersInsert(i, net)
    \/ \E i \in 1..MaxJoins : JoinReturns(i)

SpecCommunities == InitCommunities /\ [][NextCommunities]_vars

----------------------------------------------------------------------------
(* Vocabulary of the properties *)

\* A space accepts at time t: status open and end_time not passed
Accepting(s, t) ==
    /\ s.status = "open"
    /\ (s.end_time = NoTime \/ s.end_time[1] >= t)

\* The page state of the design's state machine, read off the rendered view
PageState ==
    IF View = "loading" THEN "loading"
    ELSE IF View = "error"
         THEN IF error \in {InvalidCodeMsg, NotFoundMsg} THEN "notFound" ELSE "rejected"
    ELSE IF View = "submitted" THEN "submitted"
    ELSE IF View = "form"
         THEN IF isSubmitting THEN "submitting" ELSE "accepting"
    ELSE "blank"

\* the stored space the route code names, if any
CodeSpaces == {s \in spaces : s.unique_code = code}

\* a step in which an insert request goes out
InsertIssued == Len(inserts') = Len(inserts) + 1

\* a step in which the store gains a row
RowCreated == Len(attendance_records') = Len(attendance_records) + 1
LastRecord == attendance_records[Len(attendance_records)]

----------------------------------------------------------------------------
(* C1: every attendance record is created while its space is accepting (status
   open, end_time not passed) at the moment of the insert; a submit made after
   the space was paused or closed or has ended creates no record. *)
C1_InsertOnlyWhileAccepting ==
    [][RowCreated =>
          \A s \in spaces : s.id = LastRecord'.space_id => Accepting(s, now)]_vars

(* C2: for a stored space whose status is paused or closed, a spaces lookup that
   the store answers puts the page in the rejected state, with the reason
   naming the status and the space's title, type and status at hand, for
   every visitor: anonymous, signed-in non-owner or owner. *)
C2_ClosedSpaceRejectedForAll ==
    [][\A r \in 1..MaxRuns : \A s \in CodeSpaces :
          (SpacesResponse(r, "ok") /\ s.status # "open")
          => /\ error' = StatusMsg(s.status)
             /\ space' # NoSpace
             /\ space'.title = s.title /\ space'.type = s.type
             /\ space'.status = s.status
             /\ PageState' = "rejected"]_vars

(* C3: a submit sends one request carrying the resolved space's id, the page's
   user id (null when anonymous) and the validated values; when that insert
   succeeds exactly one row with those contents is appended and submitted is
   set; when it fails no row is created and submitted is not set. *)
C3_OneRowPerSuccessfulSubmit ==
    [][/\ InsertIssued =>
            /\ inserts'[Len(inserts')].space_id = space.id
            /\ \E s \in CodeSpaces : s.id = space.id
            /\ inserts'[Len(inserts')].user_id = user
            /\ \A k \in DOMAIN formValues :
                  Get(inserts'[Len(inserts')].fields, k) = formValues[k]
            /\ \A k \in FormKeys(space.required_fields) \ DOMAIN formValues :
                  Get(inserts'[Len(inserts')].fields, k) = Undefined
       /\ \A i \in 1..Len(inserts) :
            /\ InsertResponse(i, "ok") =>
                  /\ RowCreated
                  /\ LastRecord'.space_id = space.id
                  /\ LastRecord'.user_id = inserts[i].user_id
                  /\ \A k \in FormKeys(space.required_fields) :
                        Get(LastRecord'.fields, k) = Get(inserts[i].fields, k)
                  /\ \A j \in 1..Len(attendance_records) :
                        attendance_records'[j] = attendance_records[j]
                  /\ submitted'
            /\ \A net \in {"error", "throw"} : InsertResponse(i, net) =>
                  /\ attendance_records' = attendance_records
                  /\ submitted' = submitted
       /\ attendance_records' # attendance_records =>
            \E i \in 1..Len(inserts) : InsertResponse(i, "ok")]_vars

C3_Witness ==
    /\ submitted
    /\ Len(attendance_records) = 1
    /\ attendance_records[1].user_id = Visitor
    /\ Get(attendance_records[1].fields, EmailKey) = EmailGood

(* C4: at most one insert is in flight at any time, however often the submit
   control is activated while a request is pending. *)
C4_AtMostOneInsertInFlight == Len(inserts) <= 1

C4_Witness ==
    /\ Len(inserts) = 1
    /\ isSubmitting
    /\ View = "form"
    /\ ~ENABLED HandleSubmit

(* C5: the page state changes only along loading -> {notFound, rejected,
   accepting} and accepting -> submitting -> {submitted, accepting}; notFound,
   rejected and submitted are never left, and the message shown in them does
   not change. *)
C5_Transitions ==
    { <<"loading", "notFound">>, <<"loading", "rejected">>, <<"loading", "accepting">>,
      <<"accepting", "submitting">>, <<"submitting", "submitted">>,
      <<"submitting", "accepting">> }

C5_TerminalStatesStay ==
    [][/\ PageState' # PageState => <<PageState, PageState'>> \in C5_Transitions
       /\ PageState \in {"notFound", "rejected"} => error' = error]_vars

(* C6: within one mount the spaces table is queried exactly once (when a code
   is present) and the users table at most once, whatever the auth context
   does to the user value. *)
C6_OneResolverCallPerMount ==
    /\ Cardinality({r \in 1..Len(runs) : runs[r].spacesQueried}) <= 1
    /\ Cardinality({r \in 1..Len(runs) : runs[r].usersQueried}) <= 1
    /\ (Len(runs) >= 1 /\ code # NoCode) =>
          Cardinality({r \in 1..Len(runs) : runs[r].spacesQueried}) = 1

\* the users lookup of run r fails: error value, no row, or a throw
PrefillFails(r, net) ==
    \/ net \in {"error", "throw"}
    \/ SelectUserById(session, runs[r].user).data = NoRow

(* C7: when the prefill lookup fails (error value, no row, or a throw) the run
   ends with loading cleared, the error state and the toast untouched, the
   values not prefilled, and the form shown if nothing else had set an error. *)
C7_PrefillFailureIsSilent ==
    [][\A r \in 1..Len(runs) : \A net \in {"ok", "error", "throw"} :
          (UsersResponse(r, net) /\ PrefillFails(r, net))
          => /\ error' = error
             /\ lastToast' = lastToast
             /\ formValues' = formValues
             /\ ~loading'
             /\ (error = NoError /\ ~submitted) => View' = "form"]_vars

\* What the design says of each input: the emails that have a local part, an
\* @, and a domain with a dot and a final label of two or more letters
C8_WellFormedEmails == {EmailGood, EmailUpper, EmailSub}
C8_StudentIdKey == <<"s", "t", "u", "d", "e", "n", "t", "_", "i", "d">>

C8_Filled(k) == k \in DOMAIN formValues /\ Len(formValues[k]) > 0

C8_AllSatisfied ==
    /\ C8_Filled(NameKey)
    /\ C8_Filled(EmailKey)
    /\ formValues[EmailKey] \in C8_WellFormedEmails
    /\ \A s \in CodeSpaces :
          (s.required_fields.kind = "array"
             /\ \E i \in 1..Len(s.required_fields.items) :
                   /\ s.required_fields.items[i].required
                   /\ s.required_fields.items[i].name = StudentID)
          => C8_Filled(C8_StudentIdKey)

(* C8: no insert goes out while name is empty, email is empty or is not of the
   email shape, or a required custom field is empty; a submit activation with
   all of them satisfied does send the insert. *)
C8_InsertIffValid ==
    [][/\ InsertIssued => C8_AllSatisfied
       /\ HandleSubmit => (InsertIssued <=> C8_AllSatisfied)]_vars

C8_Witness ==
    /\ Len(inserts) = 1
    /\ Get(inserts[1].fields, EmailKey) = EmailGood
    /\ HasKey(inserts[1].fields, C8_StudentIdKey)
    /\ formErrors = {}

(* C9: an insert request goes out only from the accepting state: never while
   the page is loading, notFound, rejected or submitted. *)
C9_InsertOnlyFromAccepting ==
    [][InsertIssued => PageState = "accepting"]_vars

C9_Witness ==
    /\ PageState = "rejected"
    /\ space # NoSpace
    /\ InvalidFields(formValues, space.required_fields) = {}
    /\ ~ENABLED HandleSubmit
    /\ inserts = << >>

(* C10: for an open space, a resolution at a time strictly after end_time
   rejects the page with the ended reason and shows no form; with end_time
   unset, equal to or later than the current time the run ends with the page
   accepting (the form shown, nothing else having set an error). *)
C10_EndTimeDecidesAccepting ==
    [][\A r \in 1..Len(runs) :
          /\ \A s \in CodeSpaces :
                (SpacesResponse(r, "ok") /\ s.status = "open")
                => IF s.end_time # NoTime /\ s.end_time[1] < now
                   THEN /\ error' = EndedMsg
                        /\ PageState' = "rejected"
                        /\ runs'[r].pc = "done"
                   ELSE /\ space' # NoSpace
                        /\ error' = error
                        /\ (runs'[r].pc = "done" /\ error = NoError /\ ~submitted)
                              => View' = "form"
          /\ \A net \in {"ok", "error", "throw"} :
                (UsersResponse(r, net) /\ error = NoError /\ ~submitted)
                => View' = "form"]_vars

----------------------------------------------------------------------------
(* C11: a non-empty code that matches no stored space: while the first run is
   pending the page is loading; once a run has finished the page shows the
   notFound error 'Attendance session not found' with loading cleared; at no
   time is a space held, the form rendered, a prefill query issued, an insert
   issued or a row created *)
C11_UnknownCodeEndsNotFound ==
    (code # NoCode /\ CodeSpaces = {}) =>
        /\ space = NoSpace
        /\ View # "form"
        /\ \A r \in 1..Len(runs) : ~runs[r].usersQueried
        /\ inserts = << >>
        /\ attendance_records = << >>
        /\ IF \E r \in 1..Len(runs) : runs[r].pc = "done"
           THEN error = NotFoundMsg /\ ~loading /\ PageState = "notFound"
           ELSE error = NoError /\ loading

\* both runs of an unknown code have finished
C11_Witness ==
    /\ code = OtherCode
    /\ Len(runs) = 2
    /\ \A r \in 1..Len(runs) : runs[r].spacesQueried /\ runs[r].pc = "done"
    /\ error = NotFoundMsg

(* C12: with the route code absent or empty, every resolver run ends at once
   in the error state with the invalid-code message and loading cleared, and
   no run issues a spaces query or a users query *)
C12_EmptyCodeQueriesNothing ==
    (code = NoCode /\ runs # << >>) =>
        /\ error = InvalidCodeMsg
        /\ ~loading
        /\ View = "error"
        /\ space = NoSpace
        /\ \A r \in 1..Len(runs) :
              /\ runs[r].pc = "done"
              /\ ~runs[r].spacesQueried
              /\ ~runs[r].usersQueried

\* the resolver has run twice (mount, then the auth change) without a code
C12_Witness ==
    /\ code = NoCode
    /\ Len(runs) = 2
    /\ user # NoUser
    /\ error = InvalidCodeMsg

----------------------------------------------------------------------------
(* C15: when the insert returns an error or throws, onSubmit creates no row,
   leaves submitted false, clears isSubmitting, keeps the entered values and
   the error state, raises the failure toast and issues no request of its own
   (no retry); a page that was in submitting is in accepting afterwards, with
   the submit control enabled again for a manual submit *)
C15_FailedInsertReturnsToAccepting ==
    [][\A i \in 1..Len(inserts), net \in {"error", "throw"} :
          InsertResponse(i, net) =>
              /\ attendance_records' = attendance_records
              /\ ~submitted /\ ~submitted'
              /\ ~isSubmitting'
              /\ formValues' = formValues
              /\ error' = error
              /\ lastToast' = "Error"
              /\ inserts' = << >>
              /\ (PageState = "submitting" =>
                     PageState' = "accepting" /\ SubmitEnabled')]_vars

\* after a failed insert the attendee has submitted again: a new insert is in
\* flight, still no row
C15_Witness ==
    /\ lastToast = "Error"
    /\ Len(inserts) = 1
    /\ PageState = "submitting"
    /\ attendance_records = << >>

(* C16: a users (prefill) query goes out only in the step in which the spaces
   query of the same resolver run returns a space that is accepting (status
   open, end_time null or not passed), and only for a run started with an
   authenticated user; that step sets no error *)
C16_PrefillOnlyAfterAcceptingSpace ==
    [][\A r \in 1..Len(runs') :
          (runs'[r].usersQueried /\ (r > Len(runs) \/ ~runs[r].usersQueried)) =>
              /\ r <= Len(runs)
              /\ runs[r].pc = "spaces"
              /\ runs[r].spacesQueried
              /\ runs[r].user # NoUser
              /\ code # NoCode
              /\ \E s \in CodeSpaces :
                    Accepting(s, now) /\ space' = SpaceObject(s)
              /\ error' = error]_vars

\* a prefill query is in flight
C16_Witness ==
    \E r \in 1..Len(runs) :
        runs[r].usersQueried /\ runs[r].pc = "users" /\ runs[r].user = Visitor

----------------------------------------------------------------------------
(* C18: no step of the attendance flow or of the Dashboard status toggle
   changes or removes a row already in attendance_records: the table only
   grows, by one row at a time and only in a successful insert response;
   the steps of a resolver run (spaces query, prefill query) leave all three
   tables unchanged; the status toggle changes the spaces table only *)
C18_ExistingRowsUntouched ==
    [][/\ Len(attendance_records') >= Len(attendance_records)
       /\ Len(attendance_records') <= Len(attendance_records) + 1
       /\ \A j \in 1..Len(attendance_records) :
             attendance_records'[j] = attendance_records[j]
       /\ RowCreated => \E i \in 1..Len(inserts) : InsertResponse(i, "ok")
       /\ runs' # runs => storeVars' = storeVars
       /\ spaces' # spaces =>
             /\ attendance_records' = attendance_records
             /\ users' = users]_vars

\* a second row has been appended behind the earlier one, and the space's
\* status has been toggled since
C18_Witness ==
    /\ Len(attendance_records) = 2
    /\ attendance_records[1] = EarlierRecord
    /\ attendance_records[2].space_id = EarlierRecord.space_id
    /\ \E s \in spaces : s.status # "open"

----------------------------------------------------------------------------
(* C17: the page leaves the submitting state exactly when the in-flight
   insert returns: a step out of submitting is an insert response and leads to
   submitted or accepting, and, every request eventually returning, submitting
   is always eventually followed by submitted or accepting *)
C17_SubmittingEndsWithTheInsert ==
    /\ [][(PageState = "submitting" /\ PageState' # "submitting") =>
             /\ PageState' \in {"submitted", "accepting"}
             /\ \E i \in 1..Len(inserts), net \in {"ok", "error", "throw"} :
                   InsertResponse(i, net)]_vars
    /\ (PageState = "submitting") ~> (PageState \in {"submitted", "accepting"})

----------------------------------------------------------------------------
\* What the design expects for each required_fields list: the payload's keys,
\* written out, in order
C13_Name == <<"n", "a", "m", "e">>
C13_Email == <<"e", "m", "a", "i", "l">>
C13_Note == <<"n", "o", "t", "e">>
C13_IdNo == <<"i", "d", "_", "n", "o">>
C13_Contact == <<"c", "o", "n", "t", "a", "c", "t">>
C13_Age == <<"a", "g", "e">>

C13_KeyOfName(name) ==
    CASE name = StudentID -> C8_StudentIdKey
      [] name = Note -> C13_Note
      [] name = IdNo -> C13_IdNo
      [] name = IdNoLower -> C13_IdNo
      [] name = NameField -> C13_Name
      [] name = Contact -> C13_Contact
      [] name = Age -> C13_Age

C13_ExpectedKeys(rf) ==
    CASE Len(rf) = 2 /\ rf[1].name = StudentID ->
             <<C13_Name, C13_Email, C8_StudentIdKey, C13_Note>>
      [] Len(rf) = 2 /\ rf[1].name = IdNo -> <<C13_Name, C13_Email, C13_IdNo>>
      [] Len(rf) = 1 /\ rf[1].name = NameField -> <<C13_Name, C13_Email>>
      [] Len(rf) = 2 /\ rf[1].name = Contact ->
             <<C13_Name, C13_Email, C13_Contact, C13_Age>>

(* C13: the keys of the fields object passed to the insert are name, email and
   then the custom fields' names lower-cased with each white-space run turned
   into one '_', in stored order; names that normalise to one key (two custom
   fields, or a custom field and the fixed name) give a single entry, and an
   edit of any input bound to that key sets the key's value, so the entry
   holds the value written last *)
C13_PayloadKeysAreNormalisedNames ==
    [][/\ InsertIssued =>
            LET fields == inserts'[Len(inserts')].fields
            IN  /\ Keys(fields) = C13_ExpectedKeys(space.required_fields)
                /\ \A k \in DOMAIN formValues : Get(fields, k) = formValues[k]
       /\ \A i \in 1..Len(IF space = NoSpace THEN <<>> ELSE space.required_fields) :
             \A v \in FieldInputs :
                TypeCustomField(i, v) =>
                    LET k == C13_KeyOfName(space.required_fields[i].name)
                    IN  /\ k \in DOMAIN formValues' /\ formValues'[k] = v
                        /\ \A x \in DOMAIN formValues' \ {k} :
                              x \in DOMAIN formValues /\ formValues'[x] = formValues[x]]_vars

\* an insert in flight for the space whose two fields share the key id_no: one
\* entry for that key
C13_Witness ==
    /\ Len(inserts) = 1
    /\ space # NoSpace
    /\ Len(space.required_fields) = 2
    /\ space.required_fields[2].name = IdNoLower
    /\ Keys(inserts[1].fields) = <<C13_Name, C13_Email, C13_IdNo>>
    /\ Get(inserts[1].fields, C13_IdNo) = Abc

\* What the design says of a custom field's value by declared type
C14_Numeric == {NinetyNine}

(* C14: an insert goes out only if every custom field of type email that has a
   value holds one of the email shape, and every custom field of type number
   that has a value holds a numeric string *)
C14_TypeDrivesValidation ==
    [][InsertIssued =>
          \A i \in 1..Len(space.required_fields) :
             LET f == space.required_fields[i]
                 v == Get(inserts'[Len(inserts')].fields, FieldKey(f.name))
             IN  (v # Undefined /\ v # Empty) =>
                    /\ f.type = "email" => v \in C8_WellFormedEmails
                    /\ f.type = "number" => v \in C14_Numeric]_vars

----------------------------------------------------------------------------
(* C19: with every migration applied, a sign-up is never aborted by the
   on_auth_user_created trigger: whatever public.users holds, the auth user is
   created *)
C19_TriggerNeverAbortsSignUp ==
    [][\A id \in AuthIds, gen \in GeneratedUserIds :
          (migration = "applied" /\ SignUp(id, gen)) =>
              \E a \in auth_users' : a.id = id]_vars

\* the client of identity id has made profile calls and all have returned,
\* each answered by the store
ProvisioningCompleted(id) ==
    /\ \E c \in 1..Len(calls) : calls[c].id = id
    /\ \A c \in 1..Len(calls) :
          calls[c].id = id => calls[c].pc = "done" /\ calls[c].transport

(* C20: public.users never holds two rows with the id of one identity, and
   holds one for an identity once its client's profile calls have all
   returned *)
C20_OneProfileRowPerIdentity ==
    \A a \in auth_users :
        LET n == Cardinality({u \in users : u.id = a.id})
        IN  /\ n <= 1
            /\ ProvisioningCompleted(a.id) => n = 1

(* C21: every row that enters public.spaces has as admin_id an identity whose
   profile role is admin: a client signed in with the role user creates none *)
C21_SpaceInsertedOnlyForAdmins ==
    [][\A s \in spaces' \ spaces : RoleOf(s.admin_id) = "admin"]_vars

C22_Collides(c) ==
    \E s \in spaces : s.unique_code = createSpace[c].spaceData.unique_code

(* C22: no two rows of public.spaces share a unique_code; and when an insert
   returns whose code a stored row already carries, no row is added, the
   client gets the failure toast, its created-space view stays hidden and
   isSubmitting is cleared *)
C22_UniqueCodesAndFailedCollision ==
    [][/\ \A s, t \in spaces' : s.unique_code = t.unique_code => s = t
       /\ \A c \in DOMAIN createSpace :
             (/\ createSpace[c].pc = "insert"
              /\ createSpace'[c].pc # "insert"
              /\ C22_Collides(c))
             => /\ spaces' = spaces
                /\ createSpace'[c].toast = "Error"
                /\ createSpace'[c].createdSpace = NoRow
                /\ ~createSpace'[c].isSubmitting]_vars

\* two admins generated the same code: one sees its space, the other's insert
\* has returned with the failure toast and the table holds the code once
C22_Witness ==
    /\ createSpace # << >>
    /\ createSpace[IdA1].createdSpace # NoRow
    /\ createSpace[IdA1].createdSpace.unique_code = createSpace[IdA2].uniqueCode
    /\ createSpace[IdA2].pc = "form"
    /\ createSpace[IdA2].toast = "Error"
    /\ createSpace[IdA2].createdSpace = NoRow
    /\ ~createSpace[IdA2].isSubmitting
    /\ Cardinality({s \in spaces :
                       s.unique_code = createSpace[IdA2].uniqueCode}) = 1

C23_Persisted(i) ==
    \E n \in notifications' :
        n.title = "Admin Rights Approved" /\ n.user_id = profileUpdates[i].user

(* C23: when requestAdminRights ends after its notifications insert, the
   'Admin Rights Granted' toast is raised only with a notification titled
   'Admin Rights Approved' for that user in the table; without that row the
   error toast is raised *)
C23_GrantedToastImpliesNotification ==
    [][\A i \in 1..Len(profileUpdates) :
          (profileUpdates[i].pc = "notify" /\ profileUpdates'[i].pc = "done")
          => /\ lastToast' = "Admin Rights Granted" => C23_Persisted(i)
             /\ ~C23_Persisted(i) => lastToast' = "Error"]_vars

(* C26: whenever the auth context holds a profile it holds a user, and the
   profile is the one of that user *)
C26_ProfileBelongsToUser ==
    profile # NoRow => (user # NoId /\ profile.id = user)

(* C27: once two or more fetchUserProfile calls for the signed-in user have all
   finished, each answered by the store, and the store holds a profile row
   for that user, the auth context's profile is not null *)
C27_ProfileSetAfterConcurrentFetches ==
    (/\ user # NoId
     /\ Len(calls) >= 2
     /\ \A c \in 1..Len(calls) :
           calls[c].id = user /\ calls[c].pc = "done" /\ calls[c].transport
     /\ \E u \in users : u.id = user)
    => (profile # NoRow /\ profile.id = user)

(* C30: updateProfile called without a user returns an error at once, with no
   call to the store; a users update that returns an error or throws leaves
   the local profile as it was and returns the error; the local profile
   changes in the step of a return only when no error came back, and then it
   carries the updates *)
C30_UpdateProfileMergesOnlyOnSuccess ==
    [][/\ (Len(profileUpdates') = Len(profileUpdates) + 1 /\ user = NoId)
          => LET call == profileUpdates'[Len(profileUpdates')]
             IN  /\ call.pc = "done"
                 /\ call.result = "No user logged in"
                 /\ users' = users
       /\ \A i \in 1..Len(profileUpdates) :
             (profileUpdates[i].pc = "update" /\ profileUpdates'[i].pc # "update")
             => /\ profileUpdates'[i].result \in {"null", "error"}
                /\ profileUpdates'[i].result = "error"
                      => profile' = profile /\ users' = users
                /\ profile' # profile
                      => /\ profileUpdates'[i].result = "null"
                         /\ \A k \in DOMAIN profileUpdates[i].updates :
                               profile'[k] = profileUpdates[i].updates[k]]_vars

\* a requestAdminRights whose update failed has left the role as it was, and a
\* Profile save that succeeded has put its name into the local profile
C30_Witness ==
    /\ profile # NoRow
    /\ profile.role = "user"
    /\ profile.full_name = Abc
    /\ \E i \in 1..Len(profileUpdates) :
          /\ profileUpdates[i].caller = "requestAdminRights"
          /\ profileUpdates[i].pc = "done"
          /\ profileUpdates[i].result = "error"
    /\ \E j \in 1..Len(profileUpdates) :
          /\ profileUpdates[j].caller = "Profile"
          /\ profileUpdates[j].pc = "done"
          /\ profileUpdates[j].result = "null"

(* C24: while the form is shown, the return of a prefill query leaves every
   value the form holds as it is: no field with a value is overwritten or
   cleared *)
C24_PrefillKeepsTypedValues ==
    [][(/\ View = "form"
        /\ \E r \in 1..Len(runs) : runs[r].pc = "users" /\ runs'[r].pc = "done")
       => \A k \in DOMAIN formValues :
             HasValue(formValues, k)
             => (k \in DOMAIN formValues' /\ formValues'[k] = formValues[k])]_vars

C25_Last == Len(runs)

(* C25: with two or more resolver runs in a mount, the page's space and error
   are those of the run started last: when that run resolves the space as
   accepting no error is left on the page, and a response of an earlier run
   that arrives after the last run has finished changes neither space nor
   error *)
C25_LastRunDecides ==
    [][Len(runs) >= 2 =>
          /\ (runs[C25_Last].pc = "spaces" /\ runs'[C25_Last].pc = "users")
             => error' = NoError
          /\ \A r \in 1..(C25_Last - 1) :
                (runs[C25_Last].pc = "done" /\ runs[r].pc # "done"
                 /\ runs'[r].pc # runs[r].pc)
                => (space' = space /\ error' = error)]_vars

C28_AllCompleted ==
    /\ dashboard.fetch = "done"
    /\ \A i \in 1..Len(dashboard.updates) : dashboard.updates[i].pc = "done"

C28_LocalMatchesStore ==
    \A sp \in dashboard.spaces :
        \E row \in spaces : row.id = sp.id /\ row.status = sp.status

(* C28: in one Dashboard session, once every updateSpaceStatus call has
   completed the status each listed space shows is the status the store
   holds for it; an update that failed changes neither the store nor the
   list *)
C28_ListFollowsStore ==
    [][/\ C28_AllCompleted' => C28_LocalMatchesStore'
       /\ \A i \in 1..Len(dashboard.updates) :
             /\ (dashboard.updates[i].pc = "sent"
                 /\ dashboard'.updates[i].pc = "applied"
                 /\ dashboard'.updates[i].error)
                => spaces' = spaces
             /\ (dashboard.updates[i].pc = "applied"
                 /\ dashboard'.updates[i].pc = "done"
                 /\ dashboard.updates[i].error)
                => dashboard'.spaces = dashboard.spaces]_vars

(* C29: joinCommunity raises the 'Joined community successfully' toast only
   when that call inserted a community_members row for the community and the
   user; when the store rejects the insert the failure toast is raised *)
C29_JoinedToastOnlyAfterInsert ==
    [][\A i \in 1..Len(communityPage.joins) :
          (communityPage.joins[i].pc = "answered"
           /\ communityPage'.joins[i].pc = "done")
          => /\ communityPage'.toast = JoinedMsg
                => /\ communityPage.joins[i].inserted
                   /\ communityPage.joins[i].row \in community_members
             /\ ~communityPage.joins[i].inserted
                => communityPage'.toast = JoinFailedMsg]_vars

====
